---- MODULE Spec2Model ----
(***************************************************************************)
(* Model of the ingestion pipeline of ingest-amazon-data.go:               *)
(* processAmazonData (producer loop, batch channel, worker goroutines,     *)
(* post-load table lifecycle), insertBatch and createIndexesAfterLoad.     *)
(*                                                                         *)
(* One pipeline exists per store ("vanilla", "parade").  All per-pipeline  *)
(* state is a function of the store.  The store itself (database/sql) is   *)
(* the environment: every call on it may return an error, chosen with \E.  *)
(*                                                                         *)
(* Further down: main of the loader, the scoring functions and the         *)
(* benchmark script (benchmark.js and its copy in server.js), and the      *)
(* POST /api/benchmark handler of server.js.  Each program has its own     *)
(* specification; the variables of the programs that do not run are idle.  *)
(***************************************************************************)
EXTENDS Integers, Sequences, FiniteSets, Bags, TLC

(***************************************************************************)
(* Bounds of the model.  BatchSize (5000), MaxWorkers (20) and the channel *)
(* capacity (100) are inputs of the model, drawn in Init from 1..bound.    *)
(***************************************************************************)
MaxLines == 2
MaxBatchSize == 2
MaxWorkerCount == 2
MaxQueueCap == 1
MaxFaults == 2

\* The longest corpus of BatchesSpec: a full batch and a partial one.
BatchLines == 3

\* const SampleSize = 0: 0 means process all records.
SampleSize == 0

\* len(indexes) in createIndexesAfterLoad, vanilla branch.
NumVanillaIndexes == 9

DBS == {"vanilla", "parade"}

\* What scanner.Scan() finds next in the input: a line, by what the producer
\* loop distinguishes, or the failure of the scan.  "tooLong" is a line that
\* does not fit the maximum token size of line 345 (bufio.ErrTooLong),
\* "readError" an error of the gzip stream (a truncated download).
LineKinds == {"valid", "empty", "malformed", "noAsin", "noTitle",
              "tooLong", "readError"}

\* The kinds at which scanner.Scan() returns false before the end of the input.
ScanFailures == {"tooLong", "readError"}

\* The kinds of line the corpus of Spec is drawn from.
InputKinds == {"valid", "malformed", "tooLong"}

VARIABLES
    lines,          \* the corpus file: sequence of line kinds (shared, read-only)
    BatchSize,      \* const BatchSize
    MaxWorkers,     \* const MaxWorkers
    QueueCap,       \* capacity of batchChan
    pc,             \* pc[db]: position of processAmazonData(db)
    pos,            \* pos[db]: number of lines the scanner has consumed
    batch,          \* batch[db]: the slice being filled (sequence of line numbers)
    processedCount, \* processedCount[db]: int32 counter
    finalCount,     \* finalCount[db]: value read after workerWg.Wait(), -1 before
    batchChan,      \* batchChan[db]: buffered channel contents
    closed,         \* closed[db]: close(batchChan) has run
    workerWg,       \* workerWg[db]: WaitGroup counter
    wpc,            \* wpc[db][w]: position of worker goroutine w
    wbatch,         \* wbatch[db][w]: the batch worker w holds
    wtx,            \* wtx[db][w]: the insertBatch call worker w is in
    table,          \* table[db][r]: committed rows of record r in products
    tableLogged,    \* tableLogged[db]: the table is LOGGED
    idxI,           \* idxI[db]: loop index i over indexes (vanilla branch)
    indexErr,       \* indexErr[db]: createIndexesAfterLoad returned an error
    logs,           \* logs[db]: set of log.Printf entries
    submitted,      \* history: sequence of batches sent on batchChan[db]
    insertCalls,    \* history: bag of insertBatch calls of db
    stmts,          \* history: sequence of post-load statements run on db
    lifecycle,      \* history: sequence of table lifecycle states entered
    faults,         \* faults[db]: store errors injected so far
    mpc,            \* position of main
    dbConn,         \* dbConn[db]: getDB has returned the handle of db
    setupStmts,     \* history: sequence of the statements of setupTables(db)
    wg,             \* counter of main's WaitGroup
    wgDone          \* history: wgDone[db], the calls of wg.Done() by pipeline db

mainVars == <<mpc, dbConn, setupStmts, wg, wgDone>>

vars == <<lines, BatchSize, MaxWorkers, QueueCap, pc, pos, batch, processedCount,
          finalCount, batchChan, closed, workerWg, wpc, wbatch, wtx, table,
          tableLogged, idxI, indexErr, logs, submitted, insertCalls, stmts,
          lifecycle, faults, mainVars>>

cfgVars == <<lines, BatchSize, MaxWorkers, QueueCap>>
producerVars == <<pos, batch, processedCount, finalCount, submitted>>
workerVars == <<wpc, wbatch, wtx, workerWg>>
storeVars == <<table, tableLogged, insertCalls, stmts, lifecycle>>
postVars == <<idxI, indexErr>>

(***************************************************************************)
(* State of the JavaScript programs: the relevance scorers of server.js    *)
(* and benchmark.js (pure functions applied to an input drawn in ScoreInit)*)
(* and the benchmark run of benchmark.js (runBenchmark).                   *)
(***************************************************************************)
VARIABLES
    sResults,       \* scorer input: "null", "undefined" or a sequence of rows
    sQuery,         \* scorer input: the query string, or "undefined"
    sK,             \* scorer input: parameter k of calculateNDCG
    sOut,           \* sOut[f]: value returned by scorer f, "pending" before
    bpc,            \* position of runBenchmark
    setupOk,        \* const setupOk: "unknown" before verifySetup returns
    bType,          \* read loop: index of the search type being run
    bQuery,         \* read loop: index of the query within the type
    vanillaResult,  \* const vanillaResult of the current iteration
    paradeResult,   \* const paradeResult of the current iteration
    readResults,    \* readResults[searchType][engine]
    writeResults,   \* writeResults[writeType][engine]
    vanillaWrite,   \* the vanilla property of the object being assigned
    report,         \* the summary printed by runBenchmark, <<>> before
    exitCode,       \* process.exit code of the promise handlers, -1 before
    bArgs,          \* process.argv.slice(2): the set of flags given
    bWrite,         \* write phase: index of the write test being run
    executed,       \* history: executed[searchType][engine], the queries run
    bFaults,        \* store errors injected so far in the benchmark run
    bStores,        \* the stores of the run: rows, latency, table, indexes, outage
    bProgram,       \* the benchmark script that runs: benchmark.js or its copy
    hpc,            \* position of the handler of POST /api/benchmark
    reqBody,        \* req.body: query and searchType
    vanilla,        \* let vanilla of the handler
    parade,         \* let parade of the handler
    resJson,        \* res.status(...).json(...): the response, <<>> before
    searched        \* history: what the store did for the search of each engine

scoreVars == <<sResults, sQuery, sK, sOut>>
benchVars == <<bpc, setupOk, bType, bQuery, vanillaResult, paradeResult, readResults,
               writeResults, vanillaWrite, report, exitCode, bArgs, bWrite, executed, bFaults,
               bStores, bProgram>>
apiVars == <<hpc, reqBody, vanilla, parade, resJson, searched>>
jsVars == <<scoreVars, benchVars, apiVars>>
allVars == <<vars, jsVars>>

WorkerIds == 1..MaxWorkerCount
\* The line numbers of the records of the longest corpus.
RecordIds == 1..(IF BatchLines > MaxLines THEN BatchLines ELSE MaxLines)

RECURSIVE SeqsUpTo(_, _)
SeqsUpTo(S, n) ==
    IF n = 0 THEN {<<>>}
    ELSE LET shorter == SeqsUpTo(S, n - 1)
         IN  shorter \cup {Append(s, x) : s \in {t \in shorter : Len(t) = n - 1}, x \in S}

SeqToSet(s) == {s[i] : i \in 1..Len(s)}

(***************************************************************************)
(* atomic.AddInt32 with d >= 0: 32-bit two's complement addition, which   *)
(* wraps to negative values above MaxInt32.                                *)
(***************************************************************************)
MaxInt32 == 2147483647

AddInt32(x, d) ==
    IF x > MaxInt32 - d
    THEN (x - MaxInt32) + (d - MaxInt32) - 2
    ELSE x + d

(***************************************************************************)
(* The producer loop's test of one line: lines 369-384.                    *)
(* "empty" is skipped at line 369, "malformed" fails json.Unmarshal,       *)
(* "noAsin"/"noTitle" fail product.ASIN != "" && product.Title != "".      *)
(***************************************************************************)
\* Variant: a line that fails json.Unmarshal is not skipped.
AcceptedUnparsed(line) ==
    /\ line # "empty"
    /\ line # "noAsin" /\ line # "noTitle"

\* Variant: the title is not required.
AcceptedWithoutTitle(line) ==
    /\ line # "empty"
    /\ line # "malformed"
    /\ line # "noAsin"

Accepted(line) ==
    /\ line # "empty"
    /\ line # "malformed"
    /\ line # "noAsin" /\ line # "noTitle"

(***************************************************************************)
(* insertBatch (lines 164-242).  The call makes one blocking call on the   *)
(* store per step: db.Begin, tx.Prepare, the deferred tx.Rollback after a  *)
(* failed tx.Prepare, one stmt.Exec per product and tx.Commit, after which *)
(* the deferred calls find the transaction done; between two of them the   *)
(* other goroutines run.  wtx[db][w] is                                    *)
(* the call in progress of worker w: the answers the store has given so    *)
(* far (beginOk, prepareOk, commitOk and execFails, the records whose      *)
(* stmt.Exec returned an error) and what the call has done.                *)
(***************************************************************************)
AllOk ==
    [beginOk |-> TRUE, prepareOk |-> TRUE, commitOk |-> TRUE, execFails |-> {}]

\* insertBatch(db, products) at its entry.
CallOf(products) ==
    [products |-> products, answers |-> AllOk, err |-> FALSE, began |-> FALSE,
     commitCalled |-> FALSE, attempted |-> <<>>, logged |-> {},
     written |-> <<>>, persisted |-> <<>>]

\* No call in progress.
NoCall == CallOf(<<>>)

\* Variant: the loop stops at the first stmt.Exec error.
AfterExecBreak(call, ok) ==
    IF ~ok \/ Len(call.attempted) + 1 = Len(call.products)
    THEN "commit" ELSE "exec"

\* Lines 185, 235-239: after stmt.Exec of one product the range loop goes on
\* with the next product, whether the statement failed or not.
AfterExec(call, ok) ==
    IF Len(call.attempted) + 1 = Len(call.products) THEN "commit" ELSE "exec"

\* Lines 225-238: stmt.Exec of product p has answered.
Executed(call, p, ok) ==
    IF ok
    THEN [call EXCEPT !.attempted = Append(@, p), !.written = Append(@, p)]
    ELSE \* log.Printf("Error inserting product ..."), continue
         [call EXCEPT !.attempted = Append(@, p), !.logged = @ \cup {p},
                      !.answers.execFails = @ \cup {p}]

RECURSIVE AddRows(_, _)
AddRows(t, rows) ==
    IF rows = <<>> THEN t
    ELSE AddRows([t EXCEPT ![Head(rows)] = @ + 1], Tail(rows))

(***************************************************************************)
(* State at the entry of processAmazonData(db): setupTables has created    *)
(* the UNLOGGED table.  Init starts one pipeline; the other goroutine has  *)
(* not been scheduled.                                                     *)
(***************************************************************************)
InitCommon ==
    /\ pos = [d \in DBS |-> 0]
    /\ batch = [d \in DBS |-> <<>>]
    /\ processedCount = [d \in DBS |-> 0]
    /\ finalCount = [d \in DBS |-> -1]
    /\ batchChan = [d \in DBS |-> <<>>]
    /\ closed = [d \in DBS |-> FALSE]
    /\ workerWg = [d \in DBS |-> 0]
    /\ wpc = [d \in DBS |-> [w \in WorkerIds |-> "none"]]
    /\ wbatch = [d \in DBS |-> [w \in WorkerIds |-> <<>>]]
    /\ wtx = [d \in DBS |-> [w \in WorkerIds |-> NoCall]]
    /\ table = [d \in DBS |-> [r \in RecordIds |-> 0]]
    /\ tableLogged = [d \in DBS |-> FALSE]
    /\ idxI = [d \in DBS |-> 0]
    /\ indexErr = [d \in DBS |-> FALSE]
    /\ logs = [d \in DBS |-> {}]
    /\ submitted = [d \in DBS |-> <<>>]
    /\ insertCalls = [d \in DBS |-> EmptyBag]
    /\ stmts = [d \in DBS |-> <<>>]
    /\ lifecycle = [d \in DBS |-> <<"UNBUFFERED_LOAD">>]
    /\ faults = [d \in DBS |-> 0]

\* main has connected, set up both tables, started the two goroutines
\* (wg.Add(2)) and waits at wg.Wait().
MainWaits ==
    /\ mpc = "wait"
    /\ dbConn = [d \in DBS |-> TRUE]
    /\ setupStmts = [d \in DBS |-> <<>>]
    /\ wg = 2
    /\ wgDone = [d \in DBS |-> 0]

\* The JavaScript programs are not running during an ingestion run.
ScoreIdle ==
    /\ sResults = [kind |-> "null", rows |-> <<>>]
    /\ sQuery = [kind |-> "undefined", chars |-> <<>>]
    /\ sK = 0
    /\ sOut = <<>>

\* No object is being assigned to writeResults.
NoWrite == <<>>

BenchIdle ==
    /\ bpc = "idle"
    /\ setupOk = "unknown"
    /\ bType = 0
    /\ bQuery = 0
    /\ vanillaResult = <<>>
    /\ paradeResult = <<>>
    /\ readResults = <<>>
    /\ writeResults = <<>>
    /\ vanillaWrite = NoWrite
    /\ report = <<>>
    /\ exitCode = -1
    /\ bArgs = {}
    /\ bWrite = 0
    /\ executed = <<>>
    /\ bFaults = 0
    /\ bStores = <<>>
    /\ bProgram = "none"

ApiIdle ==
    /\ hpc = "idle"
    /\ reqBody = <<>>
    /\ vanilla = <<>>
    /\ parade = <<>>
    /\ resJson = <<>>
    /\ searched = <<>>

Init ==
    /\ lines \in SeqsUpTo(InputKinds, MaxLines)
    /\ BatchSize \in 1..MaxBatchSize
    /\ MaxWorkers \in 1..MaxWorkerCount
    /\ QueueCap \in 1..MaxQueueCap
    /\ \E d \in DBS : pc = [e \in DBS |-> IF e = d THEN "open" ELSE "notStarted"]
    /\ InitCommon
    /\ MainWaits
    /\ ScoreIdle
    /\ BenchIdle
    /\ ApiIdle

\* The ingestion program is not running while the JavaScript programs run.
IngestIdle ==
    /\ lines = <<>>
    /\ BatchSize = 1
    /\ MaxWorkers = 1
    /\ QueueCap = 1
    /\ pc = [d \in DBS |-> "notStarted"]
    /\ InitCommon
    /\ mpc = "notStarted"
    /\ dbConn = [d \in DBS |-> FALSE]
    /\ setupStmts = [d \in DBS |-> <<>>]
    /\ wg = 0
    /\ wgDone = [d \in DBS |-> 0]

\* Variant: the deferred wg.Done() is missing.
WgDoneForgotten(db) == UNCHANGED mainVars

\* Line 321, defer wg.Done(): runs when processAmazonData(db) returns.
WgDone(db) ==
    /\ wg' = wg - 1
    /\ wgDone' = [wgDone EXCEPT ![db] = @ + 1]
    /\ UNCHANGED <<mpc, dbConn, setupStmts>>

(***************************************************************************)
(* processAmazonData: os.Open and gzip.NewReader (lines 330-342).          *)
(***************************************************************************)
OpenFile(db) ==
    /\ pc[db] = "open"
    /\ \E ok \in BOOLEAN :
        IF ok
        THEN /\ pc' = [pc EXCEPT ![db] = "gzip"]
             /\ UNCHANGED <<logs, faults, mainVars>>
        ELSE /\ faults[db] < MaxFaults
             /\ faults' = [faults EXCEPT ![db] = @ + 1]
             /\ logs' = [logs EXCEPT ![db] = @ \cup {<<"openError">>}]
             /\ pc' = [pc EXCEPT ![db] = "done"]
             /\ WgDone(db)
    /\ UNCHANGED <<jsVars, cfgVars, producerVars, batchChan, closed, workerVars,
                   storeVars, postVars>>

GzipReader(db) ==
    /\ pc[db] = "gzip"
    /\ \E ok \in BOOLEAN :
        IF ok
        THEN /\ pc' = [pc EXCEPT ![db] = "spawn"]
             /\ UNCHANGED <<logs, faults, mainVars>>
        ELSE /\ faults[db] < MaxFaults
             /\ faults' = [faults EXCEPT ![db] = @ + 1]
             /\ logs' = [logs EXCEPT ![db] = @ \cup {<<"gzipError">>}]
             /\ pc' = [pc EXCEPT ![db] = "done"]
             /\ WgDone(db)
    /\ UNCHANGED <<jsVars, cfgVars, producerVars, batchChan, closed, workerVars,
                   storeVars, postVars>>

(***************************************************************************)
(* Lines 355-365: one iteration of the loop that starts the workers.       *)
(***************************************************************************)
\* Variant: a worker is started for every worker id, whatever MaxWorkers.
StartWorkerEveryId(db) ==
    /\ pc[db] = "spawn"
    /\ IF workerWg[db] < MaxWorkerCount
       THEN /\ workerWg' = [workerWg EXCEPT ![db] = @ + 1]
            /\ wpc' = [wpc EXCEPT ![db][workerWg[db] + 1] = "recv"]
            /\ pc' = pc
       ELSE /\ pc' = [pc EXCEPT ![db] = "scan"]
            /\ UNCHANGED <<workerWg, wpc>>
    /\ UNCHANGED <<mainVars, jsVars,
                   cfgVars, producerVars, batchChan, closed, wbatch, wtx,
                   storeVars, postVars, logs, faults>>

StartWorker(db) ==
    /\ pc[db] = "spawn"
    /\ IF workerWg[db] < MaxWorkers
       THEN /\ workerWg' = [workerWg EXCEPT ![db] = @ + 1]
            /\ wpc' = [wpc EXCEPT ![db][workerWg[db] + 1] = "recv"]
            /\ pc' = pc
       ELSE /\ pc' = [pc EXCEPT ![db] = "scan"]
            /\ UNCHANGED <<workerWg, wpc>>
    /\ UNCHANGED <<mainVars, jsVars,
                   cfgVars, producerVars, batchChan, closed, wbatch, wtx,
                   storeVars, postVars, logs, faults>>

(***************************************************************************)
(* Lines 367-406: one iteration of the scanner loop, up to the channel     *)
(* send of line 390, which may block and is the action SendBatch.          *)
(***************************************************************************)
\* scanner.Scan(): false at the end of the input and when the scan fails.
\* scanner.Err() is never read, so the two are the same to the loop.
ScannerScan(db) ==
    /\ pos[db] < Len(lines)
    /\ lines[pos[db] + 1] \notin ScanFailures

ScanCond(db) ==
    /\ ScannerScan(db)
    /\ (SampleSize = 0 \/ processedCount[db] < SampleSize)

\* Line 403: the break at the end of the loop body.
BreakCond(count) == SampleSize > 0 /\ count >= SampleSize

ScanLine(db) ==
    /\ pc[db] = "scan"
    /\ IF ScanCond(db)
       THEN LET n == pos[db] + 1
                line == lines[n]
            IN  /\ pos' = [pos EXCEPT ![db] = n]
                /\ IF Accepted(line)
                   THEN /\ batch' = [batch EXCEPT ![db] = Append(@, n)]
                        /\ processedCount' =
                               [processedCount EXCEPT ![db] = AddInt32(@, 1)]
                        /\ pc' = [pc EXCEPT ![db] =
                               IF Len(batch[db]) + 1 >= BatchSize THEN "send"
                               ELSE IF BreakCond(AddInt32(processedCount[db], 1))
                                    THEN "flush" ELSE "scan"]
                   ELSE UNCHANGED <<batch, processedCount, pc>>
       ELSE /\ pc' = [pc EXCEPT ![db] = "flush"]
            /\ UNCHANGED <<pos, batch, processedCount>>
    /\ UNCHANGED <<mainVars, jsVars,
                   cfgVars, finalCount, submitted, batchChan, closed,
                   workerVars, storeVars, postVars, logs, faults>>

\* Variant: a non-blocking send that gives up when the buffer is full.
ChanSendOrDrop(db, b) ==
    /\ batchChan' = [batchChan EXCEPT ![db] =
           IF Len(@) < QueueCap THEN Append(@, b) ELSE @]
    /\ submitted' = [submitted EXCEPT ![db] = Append(@, b)]

\* batchChan <- batch: enabled only while the buffer has room.
ChanSend(db, b) ==
    /\ Len(batchChan[db]) < QueueCap
    /\ batchChan' = [batchChan EXCEPT ![db] = Append(@, b)]
    /\ submitted' = [submitted EXCEPT ![db] = Append(@, b)]

\* Lines 390-391, and the break test of line 403.
SendBatch(db) ==
    /\ pc[db] = "send"
    /\ ChanSend(db, batch[db])
    /\ batch' = [batch EXCEPT ![db] = <<>>]
    /\ pc' = [pc EXCEPT ![db] =
                 IF BreakCond(processedCount[db]) THEN "flush" ELSE "scan"]
    /\ UNCHANGED <<mainVars, jsVars,
                   cfgVars, pos, processedCount, finalCount, closed,
                   workerVars, storeVars, postVars, logs, faults>>

\* Variant: the remaining partial batch is not sent.
FlushBatchSkipped(db) ==
    /\ pc[db] = "flush"
    /\ pc' = [pc EXCEPT ![db] = "close"]
    /\ UNCHANGED <<mainVars, jsVars,
                   cfgVars, pos, batch, processedCount, finalCount, closed,
                   workerVars, storeVars, postVars, logs, faults, batchChan,
                   submitted>>

\* Lines 409-411: the remaining partial batch.
FlushBatch(db) ==
    /\ pc[db] = "flush"
    /\ IF Len(batch[db]) > 0
       THEN ChanSend(db, batch[db])
       ELSE UNCHANGED <<batchChan, submitted>>
    /\ pc' = [pc EXCEPT ![db] = "close"]
    /\ UNCHANGED <<mainVars, jsVars,
                   cfgVars, pos, batch, processedCount, finalCount, closed,
                   workerVars, storeVars, postVars, logs, faults>>

\* Variant: the channel is never closed.
CloseChanForgotten(db) ==
    /\ pc[db] = "close"
    /\ pc' = [pc EXCEPT ![db] = "wait"]
    /\ UNCHANGED <<mainVars, jsVars,
                   cfgVars, producerVars, batchChan, closed, workerVars,
                   storeVars, postVars, logs, faults>>

\* Line 414.
CloseChan(db) ==
    /\ pc[db] = "close"
    /\ closed' = [closed EXCEPT ![db] = TRUE]
    /\ pc' = [pc EXCEPT ![db] = "wait"]
    /\ UNCHANGED <<mainVars, jsVars,
                   cfgVars, producerVars, batchChan, workerVars, storeVars,
                   postVars, logs, faults>>

\* Variant: the producer does not wait for the workers.
WaitWorkersSkipped(db) ==
    /\ pc[db] = "wait"
    /\ finalCount' = [finalCount EXCEPT ![db] = processedCount[db]]
    /\ pc' = [pc EXCEPT ![db] = "setLogged"]
    /\ UNCHANGED <<mainVars, jsVars,
                   cfgVars, pos, batch, processedCount, submitted, batchChan,
                   closed, workerVars, storeVars, postVars, logs, faults>>

\* Lines 415-419: workerWg.Wait() returns, the counter is read and printed.
WaitWorkers(db) ==
    /\ pc[db] = "wait"
    /\ workerWg[db] = 0
    /\ finalCount' = [finalCount EXCEPT ![db] = processedCount[db]]
    /\ pc' = [pc EXCEPT ![db] = "setLogged"]
    /\ UNCHANGED <<mainVars, jsVars,
                   cfgVars, pos, batch, processedCount, submitted, batchChan,
                   closed, workerVars, storeVars, postVars, logs, faults>>

(***************************************************************************)
(* Worker goroutine (lines 357-364): for products := range batchChan.      *)
(***************************************************************************)
WorkerRecv(db, w) ==
    /\ wpc[db][w] = "recv"
    /\ Len(batchChan[db]) > 0
    /\ wbatch' = [wbatch EXCEPT ![db][w] = Head(batchChan[db])]
    /\ batchChan' = [batchChan EXCEPT ![db] = Tail(@)]
    /\ wpc' = [wpc EXCEPT ![db][w] = "insert"]
    /\ UNCHANGED <<mainVars, jsVars,
                   cfgVars, producerVars, pc, closed, workerWg, wtx, storeVars,
                   postVars, logs, faults>>

\* Variant: a worker leaves as soon as the channel is closed.
WorkerExitOnClose(db, w) ==
    /\ wpc[db][w] = "recv"
    /\ closed[db]
    /\ wpc' = [wpc EXCEPT ![db][w] = "exited"]
    /\ workerWg' = [workerWg EXCEPT ![db] = @ - 1]
    /\ UNCHANGED <<mainVars, jsVars,
                   cfgVars, producerVars, pc, batchChan, closed, wbatch, wtx,
                   storeVars, postVars, logs, faults>>

\* The range loop ends when the channel is closed and empty; defer Done().
WorkerExit(db, w) ==
    /\ wpc[db][w] = "recv"
    /\ Len(batchChan[db]) = 0
    /\ closed[db]
    /\ wpc' = [wpc EXCEPT ![db][w] = "exited"]
    /\ workerWg' = [workerWg EXCEPT ![db] = @ - 1]
    /\ UNCHANGED <<mainVars, jsVars,
                   cfgVars, producerVars, pc, batchChan, closed, wbatch, wtx,
                   storeVars, postVars, logs, faults>>

\* Variant: a worker inserts a failed batch again.
InsertReturnsRetry(db, w, call) ==
    /\ insertCalls' = [insertCalls EXCEPT ![db] = @ (+) SetToBag({call})]
    /\ wpc' = [wpc EXCEPT ![db][w] = IF call.err THEN "insert" ELSE "recv"]
    /\ wbatch' = [wbatch EXCEPT ![db][w] = IF call.err THEN @ ELSE <<>>]
    /\ wtx' = [wtx EXCEPT ![db][w] = NoCall]

\* Lines 359-362: insertBatch has returned; the range loop takes the next
\* batch whatever the call returned.
InsertReturns(db, w, call) ==
    /\ insertCalls' = [insertCalls EXCEPT ![db] = @ (+) SetToBag({call})]
    /\ wpc' = [wpc EXCEPT ![db][w] = "recv"]
    /\ wbatch' = [wbatch EXCEPT ![db][w] = <<>>]
    /\ wtx' = [wtx EXCEPT ![db][w] = NoCall]

\* Line 361: log.Printf("Error inserting batch") of the caller.
LogBatchError(db, call) ==
    logs' = [logs EXCEPT ![db] = @ \cup {<<"insertBatchError", call.products>>}]

\* One more error of the store of db: the bound of the model on them.
StoreFails(db) ==
    /\ faults[db] < MaxFaults
    /\ faults' = [faults EXCEPT ![db] = @ + 1]

\* Lines 165-173: the test of the empty batch and db.Begin().
InsertBegin(db, w) ==
    /\ wpc[db][w] = "insert"
    /\ IF Len(wbatch[db][w]) = 0
       THEN /\ InsertReturns(db, w, CallOf(wbatch[db][w]))
            /\ UNCHANGED <<faults, logs>>
       ELSE \E ok \in BOOLEAN :
            IF ok
            THEN /\ wtx' = [wtx EXCEPT ![db][w] =
                        [CallOf(wbatch[db][w]) EXCEPT !.began = TRUE]]
                 /\ wpc' = [wpc EXCEPT ![db][w] = "prepare"]
                 /\ UNCHANGED <<faults, logs, insertCalls, wbatch>>
            ELSE LET call == [CallOf(wbatch[db][w]) EXCEPT
                                  !.answers.beginOk = FALSE, !.err = TRUE]
                 IN  /\ StoreFails(db)
                     /\ InsertReturns(db, w, call)
                     /\ LogBatchError(db, call)
    /\ UNCHANGED <<mainVars, jsVars,
                   cfgVars, producerVars, pc, batchChan, closed, workerWg,
                   table, tableLogged, stmts, lifecycle, postVars>>

\* Lines 176-181: tx.Prepare; on its error insertBatch returns through the
\* deferred tx.Rollback, a call on the store of its own.
InsertPrepare(db, w) ==
    /\ wpc[db][w] = "prepare"
    /\ \E ok \in BOOLEAN :
        IF ok
        THEN /\ wpc' = [wpc EXCEPT ![db][w] = "exec"]
             /\ UNCHANGED <<faults, wtx>>
        ELSE /\ StoreFails(db)
             /\ wtx' = [wtx EXCEPT ![db][w].answers.prepareOk = FALSE,
                                    ![db][w].err = TRUE]
             /\ wpc' = [wpc EXCEPT ![db][w] = "rollback"]
    /\ UNCHANGED <<mainVars, jsVars,
                   cfgVars, producerVars, pc, batchChan, closed, workerWg,
                   table, tableLogged, stmts, lifecycle, postVars, logs,
                   insertCalls, wbatch>>

\* Line 173 after a failed tx.Prepare: the deferred tx.Rollback, whose result
\* is discarded; insertBatch returns the error of tx.Prepare and line 361
\* logs it.
InsertRollback(db, w) ==
    /\ wpc[db][w] = "rollback"
    /\ InsertReturns(db, w, wtx[db][w])
    /\ LogBatchError(db, wtx[db][w])
    /\ UNCHANGED <<mainVars, jsVars,
                   cfgVars, producerVars, pc, batchChan, closed, workerWg,
                   table, tableLogged, stmts, lifecycle, postVars, faults>>

\* Lines 185-239: one iteration of the loop over products, stmt.Exec.
InsertExec(db, w) ==
    /\ wpc[db][w] = "exec"
    /\ LET call == wtx[db][w]
           p == call.products[Len(call.attempted) + 1]
       IN  \E ok \in BOOLEAN :
            /\ IF ok
               THEN UNCHANGED <<faults, logs>>
               ELSE /\ StoreFails(db)
                    /\ logs' = [logs EXCEPT ![db] =
                                    @ \cup {<<"insertProductError", p>>}]
            /\ wtx' = [wtx EXCEPT ![db][w] = Executed(call, p, ok)]
            /\ wpc' = [wpc EXCEPT ![db][w] = AfterExec(call, ok)]
    /\ UNCHANGED <<mainVars, jsVars,
                   cfgVars, producerVars, pc, batchChan, closed, workerWg,
                   wbatch, storeVars, postVars>>

\* Line 241: tx.Commit, which makes the rows of the executed statements
\* rows of the table; when it fails the deferred tx.Rollback leaves none.
InsertCommit(db, w) ==
    /\ wpc[db][w] = "commit"
    /\ \E ok \in BOOLEAN :
        IF ok
        THEN LET call == [wtx[db][w] EXCEPT !.commitCalled = TRUE,
                                            !.persisted = wtx[db][w].written]
             IN  /\ table' = [table EXCEPT ![db] = AddRows(@, call.persisted)]
                 /\ InsertReturns(db, w, call)
                 /\ UNCHANGED <<faults, logs>>
        ELSE LET call == [wtx[db][w] EXCEPT !.commitCalled = TRUE,
                              !.answers.commitOk = FALSE, !.err = TRUE]
             IN  /\ StoreFails(db)
                 /\ InsertReturns(db, w, call)
                 /\ LogBatchError(db, call)
                 /\ UNCHANGED table
    /\ UNCHANGED <<mainVars, jsVars,
                   cfgVars, producerVars, pc, batchChan, closed, workerWg,
                   tableLogged, stmts, lifecycle, postVars>>

\* The positions of a worker inside insertBatch.
InCall == {"insert", "prepare", "rollback", "exec", "commit"}

\* Worker w of db holds a batch and is inside insertBatch.
Inserting(db, w) == wpc[db][w] \in InCall

\* Lines 360-362: insertBatch(db, products), one call on the store at a time.
WorkerInsert(db, w) ==
    \/ InsertBegin(db, w)
    \/ InsertPrepare(db, w)
    \/ InsertRollback(db, w)
    \/ InsertExec(db, w)
    \/ InsertCommit(db, w)

isParadeDB(db) == db = "parade"

\* db.Exec of one post-load statement: the store answers ok or an error.
ExecStmt(db, name, ok) ==
    /\ ~ok => faults[db] < MaxFaults
    /\ faults' = [faults EXCEPT ![db] = IF ok THEN @ ELSE @ + 1]
    /\ stmts' = [stmts EXCEPT ![db] = Append(@, <<name, ok>>)]

\* Variant: the indexes are built without converting the table.
SetLoggedSkipped(db) ==
    /\ pc[db] = "setLogged"
    /\ pc' = [pc EXCEPT ![db] = "index"]
    /\ UNCHANGED <<mainVars, jsVars,
                   cfgVars, producerVars, batchChan, closed, workerVars,
                   storeVars, postVars, logs, faults>>

(***************************************************************************)
(* Lines 421-426: ALTER TABLE products SET LOGGED.                         *)
(***************************************************************************)
SetLogged(db) ==
    /\ pc[db] = "setLogged"
    /\ \E ok \in BOOLEAN :
        /\ ExecStmt(db, "SET LOGGED", ok)
        /\ tableLogged' = [tableLogged EXCEPT ![db] = ok]
        /\ logs' = [logs EXCEPT ![db] =
               IF ok THEN @ ELSE @ \cup {<<"setLoggedWarning">>}]
    /\ lifecycle' = [lifecycle EXCEPT ![db] = Append(@, "DURABLE_CONVERSION")]
    /\ pc' = [pc EXCEPT ![db] = "index"]
    /\ UNCHANGED <<mainVars, jsVars,
                   cfgVars, producerVars, batchChan, closed, workerVars,
                   table, insertCalls, postVars>>

(***************************************************************************)
(* createIndexesAfterLoad, ParadeDB branch (lines 245-283): the BM25 index *)
(* with the tokenizer configuration, then the fallback WITH (key_field).   *)
(***************************************************************************)
\* Variant: the error of the first CREATE INDEX is returned at once.
BM25PrimaryNoFallback(db) ==
    /\ pc[db] = "index"
    /\ isParadeDB(db)
    /\ \E ok \in BOOLEAN :
        /\ ExecStmt(db, "BM25 primary", ok)
        /\ indexErr' = [indexErr EXCEPT ![db] = ~ok]
        /\ logs' = [logs EXCEPT ![db] =
               IF ok THEN @ ELSE @ \cup {<<"indexError">>}]
    /\ pc' = [pc EXCEPT ![db] = "analyze"]
    /\ lifecycle' = [lifecycle EXCEPT ![db] = Append(@, "INDEX_CONSTRUCTION")]
    /\ UNCHANGED <<mainVars, jsVars,
                   cfgVars, producerVars, batchChan, closed, workerVars,
                   table, tableLogged, insertCalls, idxI>>

BM25Primary(db) ==
    /\ pc[db] = "index"
    /\ isParadeDB(db)
    /\ \E ok \in BOOLEAN :
        /\ ExecStmt(db, "BM25 primary", ok)
        /\ logs' = [logs EXCEPT ![db] =
               IF ok THEN @ ELSE @ \cup {<<"bm25Warning">>}]
        /\ pc' = [pc EXCEPT ![db] = IF ok THEN "analyze" ELSE "fallback"]
    /\ lifecycle' = [lifecycle EXCEPT ![db] = Append(@, "INDEX_CONSTRUCTION")]
    /\ UNCHANGED <<mainVars, jsVars,
                   cfgVars, producerVars, batchChan, closed, workerVars,
                   table, tableLogged, insertCalls, postVars>>

\* Variant: processAmazonData returns when createIndexesAfterLoad fails.
BM25FallbackFatal(db) ==
    /\ pc[db] = "fallback"
    /\ \E ok \in BOOLEAN :
        /\ ExecStmt(db, "BM25 fallback", ok)
        /\ indexErr' = [indexErr EXCEPT ![db] = ~ok]
        /\ logs' = [logs EXCEPT ![db] =
               IF ok THEN @ ELSE @ \cup {<<"indexError">>}]
        /\ pc' = [pc EXCEPT ![db] = IF ok THEN "analyze" ELSE "done"]
    /\ UNCHANGED <<mainVars, jsVars,
                   cfgVars, producerVars, batchChan, closed, workerVars,
                   table, tableLogged, insertCalls, lifecycle, idxI>>

\* Lines 274-281, and the caller's log of the returned error (431-433).
BM25Fallback(db) ==
    /\ pc[db] = "fallback"
    /\ \E ok \in BOOLEAN :
        /\ ExecStmt(db, "BM25 fallback", ok)
        /\ indexErr' = [indexErr EXCEPT ![db] = ~ok]
        /\ logs' = [logs EXCEPT ![db] =
               IF ok THEN @ ELSE @ \cup {<<"indexError">>}]
    /\ pc' = [pc EXCEPT ![db] = "analyze"]
    /\ UNCHANGED <<mainVars, jsVars,
                   cfgVars, producerVars, batchChan, closed, workerVars,
                   table, tableLogged, insertCalls, lifecycle, idxI>>

(***************************************************************************)
(* createIndexesAfterLoad, vanilla branch (lines 285-314): one iteration   *)
(* of the loop over indexes, then the unique constraint.                   *)
(***************************************************************************)
VanillaIndex(db) ==
    /\ pc[db] = "index"
    /\ ~isParadeDB(db)
    /\ idxI[db] < NumVanillaIndexes
    /\ \E ok \in BOOLEAN :
        /\ ExecStmt(db, "CREATE INDEX", ok)
        /\ logs' = [logs EXCEPT ![db] =
               IF ok THEN @ ELSE @ \cup {<<"indexWarning", idxI[db] + 1>>}]
    /\ idxI' = [idxI EXCEPT ![db] = @ + 1]
    /\ lifecycle' = [lifecycle EXCEPT ![db] =
           IF idxI[db] = 0 THEN Append(@, "INDEX_CONSTRUCTION") ELSE @]
    /\ pc' = [pc EXCEPT ![db] =
           IF idxI[db] + 1 < NumVanillaIndexes THEN "index" ELSE "constraint"]
    /\ UNCHANGED <<mainVars, jsVars,
                   cfgVars, producerVars, batchChan, closed, workerVars,
                   table, tableLogged, insertCalls, indexErr>>

VanillaConstraint(db) ==
    /\ pc[db] = "constraint"
    /\ \E ok \in BOOLEAN :
        /\ ExecStmt(db, "ADD CONSTRAINT", ok)
        /\ logs' = [logs EXCEPT ![db] =
               IF ok THEN @ ELSE @ \cup {<<"constraintWarning">>}]
    /\ pc' = [pc EXCEPT ![db] = "analyze"]
    /\ UNCHANGED <<mainVars, jsVars,
                   cfgVars, producerVars, batchChan, closed, workerVars,
                   table, tableLogged, insertCalls, lifecycle, postVars>>

(***************************************************************************)
(* Lines 436-441: ANALYZE products.                                        *)
(***************************************************************************)
Analyze(db) ==
    /\ pc[db] = "analyze"
    /\ \E ok \in BOOLEAN :
        /\ ExecStmt(db, "ANALYZE", ok)
        /\ logs' = [logs EXCEPT ![db] =
               IF ok THEN @ ELSE @ \cup {<<"analyzeError">>}]
    /\ lifecycle' = [lifecycle EXCEPT ![db] = Append(@, "STATISTICS_REFRESH")]
    /\ pc' = [pc EXCEPT ![db] = "verify"]
    /\ UNCHANGED <<mainVars, jsVars,
                   cfgVars, producerVars, batchChan, closed, workerVars,
                   table, tableLogged, insertCalls, postVars>>

(***************************************************************************)
(* Lines 443-452: the row count query, printed when it succeeds; the function  *)
(* returns and the table is ready for queries.                             *)
(***************************************************************************)
Verify(db) ==
    /\ pc[db] = "verify"
    /\ \E ok \in BOOLEAN : ExecStmt(db, "COUNT", ok)
    /\ lifecycle' = [lifecycle EXCEPT ![db] = Append(@, "READY")]
    /\ pc' = [pc EXCEPT ![db] = "done"]
    /\ WgDone(db)
    /\ UNCHANGED <<jsVars, cfgVars, producerVars, batchChan, closed, workerVars,
                   table, tableLogged, insertCalls, postVars, logs>>

Producer(db) ==
    \/ OpenFile(db)
    \/ GzipReader(db)
    \/ StartWorker(db)
    \/ ScanLine(db)
    \/ SendBatch(db)
    \/ FlushBatch(db)
    \/ CloseChan(db)
    \/ WaitWorkers(db)
    \/ SetLogged(db)
    \/ BM25Primary(db)
    \/ BM25Fallback(db)
    \/ VanillaIndex(db)
    \/ VanillaConstraint(db)
    \/ Analyze(db)
    \/ Verify(db)

Worker(db, w) ==
    \/ WorkerRecv(db, w)
    \/ WorkerInsert(db, w)
    \/ WorkerExit(db, w)

Next ==
    \E db \in DBS :
        \/ Producer(db)
        \/ \E w \in WorkerIds : Worker(db, w)

Spec == Init /\ [][Next]_vars

\* Go schedules every runnable goroutine: the producer and each worker.
Fairness ==
    \A db \in DBS :
        /\ WF_vars(Producer(db))
        /\ \A w \in WorkerIds : WF_vars(Worker(db, w))

FairSpec == Init /\ [][Next]_vars /\ Fairness

TypeOK ==
    /\ \A db \in DBS :
        /\ Len(batchChan[db]) <= QueueCap
        /\ workerWg[db] \in 0..MaxWorkers
        /\ faults[db] \in 0..MaxFaults

(***************************************************************************)
(* Definitions used to state the properties.                               *)
(***************************************************************************)
\* N: the number of valid records of the corpus.
NumValid == Cardinality({i \in 1..Len(lines) : lines[i] = "valid"})

\* The scanner delivers the whole corpus: no line is too long for its buffer
\* and the stream is read to its end.
ScanNeverFails == \A i \in 1..Len(lines) : lines[i] \notin ScanFailures

Workers == 1..MaxWorkers

Calls(db) == BagToSet(insertCalls[db])

\* workerWg.Wait() has returned.
PoolFinished(db) == closed[db] /\ pc[db] # "wait"

NoWriteFailed(db) ==
    \A c \in Calls(db) : ~c.err /\ c.logged = {}

Occurrences(s, x) == Cardinality({k \in 1..Len(s) : s[k] = x})

RECURSIVE Flatten(_)
Flatten(ss) == IF ss = <<>> THEN <<>> ELSE Head(ss) \o Flatten(Tail(ss))

RECURSIVE SumCopies(_, _)
SumCopies(S, bag) ==
    IF S = {} THEN 0
    ELSE LET c == CHOOSE x \in S : TRUE
         IN  CopiesIn(c, bag) + SumCopies(S \ {c}, bag)

\* How often batch b has been passed to insertBatch, is held by a worker
\* that has received it, and is waiting in the channel.
InsertedTimes(db, b) ==
    SumCopies({c \in Calls(db) : c.products = b}, insertCalls[db])

HeldTimes(db, b) ==
    Cardinality({w \in WorkerIds : Inserting(db, w) /\ wbatch[db][w] = b})

QueuedTimes(db, b) == Occurrences(batchChan[db], b)

SubmittedBatches(db) == SeqToSet(submitted[db])

\* The batch the producer is filling and has not sent yet.
Filling(db) ==
    IF pc[db] \in {"scan", "send", "flush"} THEN batch[db] ELSE <<>>

\* The producer is at a channel send with a batch in hand.
AtSend(db) ==
    \/ pc[db] = "send"
    \/ pc[db] = "flush" /\ Len(batch[db]) > 0

(***************************************************************************)
(* C1: when no write fails and the stream of records is delivered whole,  *)
(* the records-processed counter read after the pool has finished equals   *)
(* N, the number of valid records, for every batch size, worker count and  *)
(* interleaving.                                                           *)
(***************************************************************************)
C1_CounterEqualsValidRecords ==
    \A db \in DBS :
        (PoolFinished(db) /\ NoWriteFailed(db) /\ ScanNeverFails) =>
            /\ finalCount[db] = NumValid
            /\ processedCount[db] = NumValid

C1_Witness ==
    \E db \in DBS :
        /\ pc[db] = "done" /\ PoolFinished(db) /\ NoWriteFailed(db)
        /\ MaxWorkers >= 2 /\ BatchSize = 1
        /\ Len(submitted[db]) = 2
        /\ finalCount[db] = 2

(***************************************************************************)
(* C2: every validated record is in exactly one batch; every batch sent    *)
(* is received by one worker and passed to insertBatch once: a submitted   *)
(* batch is at any time in exactly one of the channel, a worker's hands    *)
(* and the finished insertBatch calls, and when the pool has finished      *)
(* every submitted batch has been inserted exactly once.                   *)
(***************************************************************************)
C2_EachBatchInsertedOnce ==
    \A db \in DBS :
        LET placed == Flatten(submitted[db]) \o Filling(db)
        IN  /\ \A i \in 1..Len(lines) :
                Occurrences(placed, i) =
                    IF lines[i] = "valid" /\ i <= pos[db] THEN 1 ELSE 0
            /\ \A c \in Calls(db) : c.products \in SubmittedBatches(db)
            /\ \A w \in WorkerIds :
                Inserting(db, w) => wbatch[db][w] \in SubmittedBatches(db)
            /\ \A b \in SubmittedBatches(db) :
                /\ QueuedTimes(db, b) + HeldTimes(db, b) + InsertedTimes(db, b) = 1
                /\ PoolFinished(db) => InsertedTimes(db, b) = 1

C2_Witness ==
    \E db \in DBS :
        /\ PoolFinished(db)
        /\ MaxWorkers >= 2
        /\ Len(submitted[db]) = 2
        /\ \A b \in SubmittedBatches(db) : InsertedTimes(db, b) = 1

(***************************************************************************)
(* C3: the channel never holds more than its capacity; while it is full    *)
(* the producer's send does not complete (the producer keeps its position  *)
(* and its batch, and the channel changes only by a worker's receive);     *)
(* a send that completes appends the producer's batch to the channel, so   *)
(* no batch is dropped and no queued batch is overwritten.                 *)
(***************************************************************************)
C3_QueueBounded ==
    \A db \in DBS : Len(batchChan[db]) <= QueueCap

C3_SendBlocksWhenFull ==
    \A db \in DBS :
        (AtSend(db) /\ Len(batchChan[db]) = QueueCap) =>
            /\ pc'[db] = pc[db]
            /\ batch'[db] = batch[db]
            /\ submitted'[db] = submitted[db]
            /\ \/ batchChan'[db] = batchChan[db]
               \/ batchChan'[db] = Tail(batchChan[db])

C3_SendEnqueues ==
    \A db \in DBS :
        (AtSend(db) /\ pc'[db] # pc[db]) =>
            /\ batchChan'[db] = Append(batchChan[db], batch[db])
            /\ submitted'[db] = Append(submitted[db], batch[db])

C3_BackpressureNeverDrops ==
    /\ []C3_QueueBounded
    /\ [][C3_SendBlocksWhenFull]_vars
    /\ [][C3_SendEnqueues]_vars

\* The producer is blocked on a full channel: with the batch in its hands
\* more batches have been produced than the channel holds.
C3_Witness ==
    \E db \in DBS :
        /\ pc[db] = "send"
        /\ Len(batch[db]) = BatchSize
        /\ Len(batchChan[db]) = QueueCap
        /\ Len(submitted[db]) + 1 > QueueCap

(***************************************************************************)
(* C4: a worker exits only when the channel is closed and empty; Wait()    *)
(* returns only when all workers have exited and every submitted batch     *)
(* has been inserted; and under fair scheduling a producer at a send gets  *)
(* past it, and a closed channel leads to Wait() returning.                *)
(***************************************************************************)
C4_DrainedBeforeWaitReturns ==
    \A db \in DBS :
        /\ \A w \in WorkerIds :
            wpc[db][w] = "exited" => (closed[db] /\ batchChan[db] = <<>>)
        /\ PoolFinished(db) =>
            /\ \A w \in Workers : wpc[db][w] = "exited"
            /\ workerWg[db] = 0
            /\ batchChan[db] = <<>>
            /\ \A b \in SubmittedBatches(db) : InsertedTimes(db, b) >= 1

C4_PoolDrainsAndTerminates ==
    /\ []C4_DrainedBeforeWaitReturns
    /\ \A db \in DBS : AtSend(db) ~> closed[db]
    /\ \A db \in DBS : closed[db] ~> PoolFinished(db)

\* Wait() has returned after two batches went through a channel of
\* capacity 1 to two workers.
C4_Witness ==
    \E db \in DBS :
        /\ PoolFinished(db)
        /\ QueueCap = 1 /\ MaxWorkers >= 2
        /\ Len(submitted[db]) = 2
        /\ \A w \in Workers : wpc[db][w] = "exited"

(***************************************************************************)
(* C5: an insertBatch call in which exactly one stmt.Exec fails logs that  *)
(* record, still executes the statement for every record of the batch and  *)
(* calls Commit; when the commit succeeds the other records of the batch   *)
(* are the rows it persisted, and the failed record has no row.            *)
(***************************************************************************)
OneRecordFailed(c) ==
    /\ c.answers.beginOk /\ c.answers.prepareOk
    /\ Cardinality(c.answers.execFails) = 1

Others(c) == SelectSeq(c.products, LAMBDA p : p \notin c.answers.execFails)

C5_OtherRecordsPersisted ==
    \A db \in DBS : \A c \in Calls(db) :
        OneRecordFailed(c) =>
            /\ c.attempted = c.products
            /\ c.logged = c.answers.execFails
            /\ \A p \in c.answers.execFails :
                <<"insertProductError", p>> \in logs[db]
            /\ c.commitCalled
            /\ c.answers.commitOk =>
                /\ ~c.err
                /\ c.persisted = Others(c)
                /\ \A p \in SeqToSet(Others(c)) : table[db][p] = 1
                /\ \A p \in c.answers.execFails : table[db][p] = 0

\* The first record of a batch of two failed and the second is in the table.
C5_Witness ==
    \E db \in DBS : \E c \in Calls(db) :
        /\ OneRecordFailed(c) /\ c.answers.commitOk
        /\ Len(c.products) = 2
        /\ c.answers.execFails = {c.products[1]}
        /\ table[db][c.products[2]] = 1

(***************************************************************************)
(* C6: an insertBatch call that returns an error (Begin, Prepare or        *)
(* Commit failed) leaves no row of its batch in the table and is logged;   *)
(* the batch was submitted once and is inserted once, never again; the     *)
(* worker goes back to receiving; and under fair scheduling the pool       *)
(* still drains the channel and Wait() returns.                            *)
(***************************************************************************)
SomeBatchFailed(db) == \E c \in Calls(db) : c.err

C6_FailedBatchLost ==
    \A db \in DBS :
        /\ \A c \in Calls(db) :
            c.err =>
                /\ c.persisted = <<>>
                /\ \A p \in SeqToSet(c.products) : table[db][p] = 0
                /\ <<"insertBatchError", c.products>> \in logs[db]
                /\ Occurrences(submitted[db], c.products) = 1
                /\ InsertedTimes(db, c.products) = 1
                /\ HeldTimes(db, c.products) = 0
                /\ QueuedTimes(db, c.products) = 0
        /\ (SomeBatchFailed(db) /\ PoolFinished(db)) =>
            \A b \in SubmittedBatches(db) : InsertedTimes(db, b) = 1

C6_WorkerContinues ==
    \A db \in DBS : \A w \in WorkerIds :
        (Inserting(db, w) /\ wpc'[db][w] \notin InCall) =>
            wpc'[db][w] = "recv"

C6_FailedBatchNotRetried ==
    /\ []C6_FailedBatchLost
    /\ [][C6_WorkerContinues]_vars
    /\ \A db \in DBS : SomeBatchFailed(db) ~> PoolFinished(db)

\* The first batch failed, a later batch was inserted and the pool finished.
C6_Witness ==
    \E db \in DBS :
        /\ PoolFinished(db)
        /\ Len(submitted[db]) >= 2
        /\ \E c \in Calls(db) : c.err /\ c.products = submitted[db][1]
        /\ \E c \in Calls(db) :
            /\ ~c.err /\ c.persisted # <<>>
            /\ c.products = submitted[db][Len(submitted[db])]

(***************************************************************************)
(* C7: the table's lifecycle states are entered in the order               *)
(* UNBUFFERED_LOAD, DURABLE_CONVERSION, INDEX_CONSTRUCTION,                *)
(* STATISTICS_REFRESH, READY, each at most once; the conversion starts     *)
(* only when the channel is closed and empty and all workers have exited,  *)
(* and from then on no insertBatch call is in progress or is made.         *)
(***************************************************************************)
LifecycleOrder ==
    <<"UNBUFFERED_LOAD", "DURABLE_CONVERSION", "INDEX_CONSTRUCTION",
      "STATISTICS_REFRESH", "READY">>

IsPrefix(s, t) == Len(s) <= Len(t) /\ s = SubSeq(t, 1, Len(s))

\* The conversion is about to start or has started.
ConversionBegun(db) == pc[db] = "setLogged" \/ Len(lifecycle[db]) >= 2

C7_LifecycleInOrder ==
    \A db \in DBS :
        /\ IsPrefix(lifecycle[db], LifecycleOrder)
        /\ ConversionBegun(db) =>
            /\ closed[db]
            /\ batchChan[db] = <<>>
            /\ \A w \in Workers : wpc[db][w] = "exited"
            /\ \A w \in WorkerIds : wpc[db][w] \notin {"recv"} \cup InCall

C7_NoInsertOnceBegun ==
    \A db \in DBS :
        ConversionBegun(db) =>
            /\ insertCalls'[db] = insertCalls[db]
            /\ table'[db] = table[db]

C7_LoadEndsBeforeConversion ==
    /\ []C7_LifecycleInOrder
    /\ [][C7_NoInsertOnceBegun]_vars

C7_Witness ==
    \E db \in DBS :
        /\ lifecycle[db] = LifecycleOrder
        /\ MaxWorkers >= 2
        /\ Len(submitted[db]) >= 2
        /\ \A b \in SubmittedBatches(db) : InsertedTimes(db, b) = 1

(***************************************************************************)
(* C8 as stated: every table on which index construction has started has   *)
(* been converted to a logged (fully durable) table.                       *)
(***************************************************************************)
IndexStarted(db) == "INDEX_CONSTRUCTION" \in SeqToSet(lifecycle[db])

C8_IndexedTableIsDurable ==
    \A db \in DBS : IndexStarted(db) => tableLogged[db]

(***************************************************************************)
(* C8 amended: index construction starts only after the SET LOGGED         *)
(* statement has returned; the table is logged exactly when that           *)
(* statement succeeded, and when it failed a warning was logged and the    *)
(* indexes are built on the unlogged table.                                *)
(***************************************************************************)
C8_IndexAfterConversionReturned ==
    \A db \in DBS :
        (pc[db] \in {"index", "fallback", "constraint"} \/ IndexStarted(db)) =>
            /\ Len(lifecycle[db]) >= 2
            /\ lifecycle[db][2] = "DURABLE_CONVERSION"
            /\ Len(stmts[db]) >= 1
            /\ stmts[db][1][1] = "SET LOGGED"
            /\ tableLogged[db] = stmts[db][1][2]
            /\ ~stmts[db][1][2] => <<"setLoggedWarning">> \in logs[db]

\* Index construction has started on a table whose conversion failed.
C8_Witness ==
    \E db \in DBS :
        /\ IndexStarted(db)
        /\ ~tableLogged[db]
        /\ stmts[db][1] = <<"SET LOGGED", FALSE>>

(***************************************************************************)
(* C9: the fallback BM25 statement runs at most once, and only directly    *)
(* after a failed primary statement; once index construction is over, a    *)
(* failed primary has been followed by exactly one fallback; a successful  *)
(* primary by none; createIndexesAfterLoad returns an error only when      *)
(* the primary and the fallback have both failed.  The vanilla branch      *)
(* has no primary or fallback configuration and returns no error.          *)
(***************************************************************************)
StmtPositions(db, name) == {k \in 1..Len(stmts[db]) : stmts[db][k][1] = name}

StmtCount(db, name) == Cardinality(StmtPositions(db, name))

StmtFailed(db, name) == <<name, FALSE>> \in SeqToSet(stmts[db])

StmtSucceeded(db, name) == <<name, TRUE>> \in SeqToSet(stmts[db])

\* createIndexesAfterLoad has returned.
IndexOver(db) == IndexStarted(db) /\ pc[db] \in {"analyze", "verify", "done"}

C9_FallbackOnceBeforeError ==
    \A db \in DBS :
        /\ StmtCount(db, "BM25 primary") <= 1
        /\ StmtCount(db, "BM25 fallback") <= 1
        /\ \A k \in StmtPositions(db, "BM25 fallback") :
            k > 1 /\ stmts[db][k - 1] = <<"BM25 primary", FALSE>>
        /\ (StmtFailed(db, "BM25 primary") /\ IndexOver(db)) =>
            StmtCount(db, "BM25 fallback") = 1
        /\ StmtSucceeded(db, "BM25 primary") =>
            (StmtCount(db, "BM25 fallback") = 0 /\ ~indexErr[db])
        /\ (indexErr[db] \/ <<"indexError">> \in logs[db]) =>
            /\ StmtFailed(db, "BM25 primary")
            /\ StmtFailed(db, "BM25 fallback")
        /\ ~isParadeDB(db) =>
            /\ StmtCount(db, "BM25 primary") + StmtCount(db, "BM25 fallback") = 0
            /\ ~indexErr[db]

\* Both attempts failed and the error was returned and logged.
C9_Witness ==
    \E db \in DBS :
        /\ IndexOver(db)
        /\ indexErr[db] /\ <<"indexError">> \in logs[db]
        /\ StmtCount(db, "BM25 fallback") = 1

(***************************************************************************)
(* C10: ANALYZE is executed exactly once after index construction,         *)
(* whether the indexes were built, built by the fallback or not built;     *)
(* its failure is only logged; processAmazonData then returns with the     *)
(* table in its terminal state, and under fair scheduling a pipeline       *)
(* whose index construction has started always gets there.                 *)
(***************************************************************************)
Returned(db) ==
    /\ pc[db] = "done"
    /\ lifecycle[db] = LifecycleOrder
    /\ StmtCount(db, "ANALYZE") = 1

IndexStmts == {"BM25 primary", "BM25 fallback", "CREATE INDEX", "ADD CONSTRAINT"}

C10_AnalyzeOnce ==
    \A db \in DBS :
        /\ StmtCount(db, "ANALYZE") <= 1
        /\ \A k \in StmtPositions(db, "ANALYZE") :
            /\ IndexStarted(db)
            /\ \A j \in 1..Len(stmts[db]) :
                stmts[db][j][1] \in IndexStmts => j < k
        /\ (IndexStarted(db) /\ pc[db] \in {"verify", "done"}) =>
            StmtCount(db, "ANALYZE") = 1
        /\ StmtFailed(db, "ANALYZE") => <<"analyzeError">> \in logs[db]
        /\ (IndexStarted(db) /\ pc[db] = "done") => Returned(db)

C10_StatisticsAlwaysRefreshed ==
    /\ []C10_AnalyzeOnce
    /\ \A db \in DBS : IndexStarted(db) ~> Returned(db)

\* The primary BM25 statement failed, ANALYZE failed, and the run returned.
C10_Witness ==
    \E db \in DBS :
        /\ Returned(db)
        /\ StmtFailed(db, "BM25 primary")
        /\ StmtFailed(db, "ANALYZE")

(***************************************************************************)
(* C11.  Both BM25 statements failed for a table.                          *)
(***************************************************************************)
BothIndexStrategiesFailed(db) ==
    /\ StmtFailed(db, "BM25 primary")
    /\ StmtFailed(db, "BM25 fallback")

\* The table's setup was reported as completed: processAmazonData ran to its
\* last line and the table is READY.
ReportedReady(db) == "READY" \in SeqToSet(lifecycle[db])

\* C11: when the primary and the fallback index construction both fail, the
\* failure is fatal for that table's setup: the setup is never reported as
\* completed (READY), and the rows that were ingested stay in the table.
C11_TotalIndexFailureIsFatal ==
    \A db \in DBS :
        BothIndexStrategiesFailed(db) =>
            /\ indexErr[db]
            /\ ~ReportedReady(db)

(***************************************************************************)
(* JavaScript strings are sequences of UTF-16 code units.  A code unit is  *)
(* written as a one-character string when it is printable ASCII (but the   *)
(* grave accent, "U+0060"), as "\t", "\n", "\f" or "\r" for these four      *)
(* controls, and by its name "U+XXXX" otherwise ("U+00C9" is the capital   *)
(* E with acute accent).  The alphabet                                     *)
(* is Basic Latin, Latin-1, Latin Extended-A, the combining dot above and  *)
(* every white space of ECMAScript.                                        *)
(***************************************************************************)
\* F(v), with v worked out once, before F: the value v under the name that F
\* gives it.
With(v, F(_)) == CHOOSE r \in {F(a) : a \in {v}} : TRUE

Ascii ==
    <<" ", "!", "\"", "#", "$", "%", "&", "'", "(", ")", "*", "+", ",", "-",
      ".", "/", "0", "1", "2", "3", "4", "5", "6", "7", "8", "9", ":", ";",
      "<", "=", ">", "?", "@", "A", "B", "C", "D", "E", "F", "G", "H", "I",
      "J", "K", "L", "M", "N", "O", "P", "Q", "R", "S", "T", "U", "V", "W",
      "X", "Y", "Z", "[", "\\", "]", "^", "_", "U+0060", "a", "b", "c", "d", "e",
      "f", "g", "h", "i", "j", "k", "l", "m", "n", "o", "p", "q", "r", "s",
      "t", "u", "v", "w", "x", "y", "z", "{", "|", "}", "~">>

HexDigits == <<"0", "1", "2", "3", "4", "5", "6", "7", "8", "9",
               "A", "B", "C", "D", "E", "F">>

Codes ==
    (0..383) \cup {775, 5760} \cup (8192..8202)
        \cup {8232, 8233, 8239, 8287, 12288, 65279}

\* The code unit numbered code.
CharOf(code) ==
    IF code \in 32..126 THEN Ascii[code - 31]
    ELSE IF code = 9 THEN "\t"
    ELSE IF code = 10 THEN "\n"
    ELSE IF code = 12 THEN "\f"
    ELSE IF code = 13 THEN "\r"
    ELSE "U+" \o HexDigits[((code \div 4096) % 16) + 1]
              \o HexDigits[((code \div 256) % 16) + 1]
              \o HexDigits[((code \div 16) % 16) + 1]
              \o HexDigits[(code % 16) + 1]

\* String.prototype.charCodeAt on one code unit of the alphabet.
CodeUnit ==
    [c \in {CharOf(k) : k \in Codes} |-> CHOOSE k \in Codes : CharOf(k) = c]

Digits == {"0", "1", "2", "3", "4", "5", "6", "7", "8", "9"}

\* The code units with a one-unit lower case (Unicode simple case mapping).
UpperCodes ==
    (65..90) \cup (192..214) \cup (216..222)
        \cup {k \in 256..303 : k % 2 = 0} \cup {306, 308, 310}
        \cup {k \in 313..327 : k % 2 = 1}
        \cup {k \in 330..374 : k % 2 = 0} \cup {377, 379, 381}

\* String.prototype.toLowerCase on one code unit: the Unicode lower case,
\* which is two code units for U+0130.
LowerChar(c) ==
    With(CodeUnit[c], LAMBDA k :
        IF k \in (65..90) \cup (192..214) \cup (216..222) THEN <<CharOf(k + 32)>>
        ELSE IF k = 304 THEN <<"i", CharOf(775)>>
        ELSE IF k = 376 THEN <<CharOf(255)>>
        ELSE IF k \in UpperCodes THEN <<CharOf(k + 1)>>
        ELSE <<c>>)

\* The concatenation of the sequences lo..hi of seqs, by halves.
RECURSIVE Concat(_, _, _)
Concat(seqs, lo, hi) ==
    IF lo > hi THEN <<>>
    ELSE IF lo = hi THEN seqs[lo]
    ELSE Concat(seqs, lo, (lo + hi) \div 2) \o Concat(seqs, ((lo + hi) \div 2) + 1, hi)

toLowerCase(str) == Concat([i \in DOMAIN str |-> LowerChar(str[i])], 1, Len(str))

\* The character classes \w and \s of a regular expression, and the line
\* terminators that "." leaves out.
WordCodes == (48..57) \cup (65..90) \cup {95} \cup (97..122)
SpaceCodes ==
    {9, 10, 11, 12, 13, 32, 160, 5760} \cup (8192..8202)
        \cup {8232, 8233, 8239, 8287, 12288, 65279}
LineTerminators == {10, 13, 8232, 8233}

IsWordChar(c) == CodeUnit[c] \in WordCodes

IsSpace(c) == CodeUnit[c] \in SpaceCodes

\* term occurs in text at offset i (0-based).
OccursAt(text, term, i) ==
    /\ i + Len(term) <= Len(text)
    /\ \A j \in 1..Len(term) : text[i + j] = term[j]

\* String.prototype.includes.
includes(text, term) == \E i \in 0..Len(text) : OccursAt(text, term, i)

\* Element k of a set of integers in increasing order.
Nth(S, k) == CHOOSE x \in S : Cardinality({y \in S : y < x}) = k - 1

\* The pieces of str between its separators, where separator k starts at
\* index Nth(starts, k) and ends at index Nth(ends, k).
Pieces(str, starts, ends) ==
    [k \in 1..(Cardinality(starts) + 1) |->
        SubSeq(str,
               IF k = 1 THEN 1 ELSE Nth(ends, k - 1) + 1,
               IF k = Cardinality(starts) + 1 THEN Len(str) ELSE Nth(starts, k) - 1)]

\* str.split(/\s+/): the pieces between the maximal runs of white space; a
\* leading or trailing run leaves an empty piece, as in JavaScript.
split(str) ==
    Pieces(str,
           {i \in DOMAIN str : IsSpace(str[i]) /\ (i = 1 \/ ~IsSpace(str[i - 1]))},
           {i \in DOMAIN str : IsSpace(str[i]) /\ (i = Len(str) \/ ~IsSpace(str[i + 1]))})

\* str.split(':').
SplitColon(str) ==
    Pieces(str, {i \in DOMAIN str : str[i] = ":"}, {i \in DOMAIN str : str[i] = ":"})

\* str.replace(/[^\w\s]/g, '').
stripPunctuation(str) ==
    SelectSeq(str, LAMBDA c : IsWordChar(c) \/ IsSpace(c))

\* The template literal `${a} ${b} ${c}`.
Join3(a, b, c) == a \o <<" ">> \o b \o <<" ">> \o c

\* Sum of the integers f[1..n].
RECURSIVE SumTo(_, _)
SumTo(f, n) == IF n = 0 THEN 0 ELSE f[n] + SumTo(f, n - 1)

(***************************************************************************)
(* new RegExp(pattern, 'i') and RegExp.prototype.test, as ECMAScript       *)
(* defines them for a pattern without the u flag (Annex B grammar).  The   *)
(* constructor parses the pattern and throws a SyntaxError when it is not  *)
(* one; test looks for a match at every offset of the text.  A parsed      *)
(* pattern is a tree of nodes; a node that consumes one code unit holds    *)
(* the set of code units it accepts, closed under the case folding of the  *)
(* i flag.  Back references, named groups, look-behind assertions and      *)
(* escapes of code units outside the alphabet are not modelled: a pattern  *)
(* with one of them is reported as "unsupported".                          *)
(***************************************************************************)
\* Canonicalize of the i flag: the upper case of a code unit when that is
\* one code unit, and never an ASCII unit for a unit outside ASCII.
Canonicalize(k) ==
    IF k \in (97..122) \cup (224..246) \cup (248..254) THEN k - 32
    ELSE IF k = 255 THEN 376
    ELSE IF k > 255 /\ (k - 1) \in UpperCodes THEN k - 1
    ELSE k

CanonClass ==
    [k \in Codes |-> {j \in Codes : Canonicalize(j) = Canonicalize(k)}]

Fold(S) == UNION {CanonClass[k] : k \in S \cap Codes}

EmptyNode == [k |-> "empty"]
CharsNode(s) == [k |-> "chars", s |-> s]
SeqNode(items) == [k |-> "seq", items |-> items]
AltNode(a, b) == [k |-> "alt", a |-> a, b |-> b]
RepNode(a, min, max) == [k |-> "rep", a |-> a, min |-> min, max |-> max]
AssertNode(w) == [k |-> "assert", w |-> w]
LookNode(neg, a) == [k |-> "look", neg |-> neg, a |-> a]

Parsed(node, next) == [st |-> "ok", node |-> node, next |-> next]
PatternError == [st |-> "SyntaxError", node |-> EmptyNode, next |-> 0]
NotModelled == [st |-> "unsupported", node |-> EmptyNode, next |-> 0]

\* The code unit at index i of the pattern, "" past its end.
At(p, i) == IF i >= 1 /\ i <= Len(p) THEN p[i] ELSE ""

IsDigit(c) == c \in Digits
IsOctal(c) == c \in {"0", "1", "2", "3", "4", "5", "6", "7"}
IsHex(c) == c # "" /\ CodeUnit[c] \in (48..57) \cup (65..70) \cup (97..102)
IsLetter(c) == c # "" /\ CodeUnit[c] \in (65..90) \cup (97..122)
DigitValue(c) == CodeUnit[c] - 48
HexValue(c) ==
    With(CodeUnit[c], LAMBDA k :
        IF k <= 57 THEN k - 48 ELSE IF k <= 70 THEN k - 55 ELSE k - 87)

\* The largest repetition count that is told apart from infinity.
MaxCount == 1000000

\* DecimalDigits from index i: the value and the index after the digits.
RECURSIVE ScanDigits(_, _, _)
ScanDigits(p, i, acc) ==
    IF IsDigit(At(p, i))
    THEN ScanDigits(p, i + 1,
             With(acc * 10 + DigitValue(p[i]), LAMBDA n :
                 IF n > MaxCount THEN MaxCount ELSE n))
    ELSE [val |-> acc, next |-> i]

\* The braced quantifier {n}, {n,} or {n,m} at index i, where p[i] = "{".
Quantifier(min, max, next) == [q |-> TRUE, min |-> min, max |-> max, next |-> next]
NoQuantifier(i) == [q |-> FALSE, min |-> 0, max |-> 0, next |-> i]

BracedQuantifier(p, i) ==
    With(ScanDigits(p, i + 1, 0), LAMBDA lo :
    With(ScanDigits(p, lo.next + 1, 0), LAMBDA hi :
        IF lo.next = i + 1 THEN NoQuantifier(i)
        ELSE IF At(p, lo.next) = "}" THEN Quantifier(lo.val, lo.val, lo.next + 1)
        ELSE IF At(p, lo.next) # "," THEN NoQuantifier(i)
        ELSE IF At(p, hi.next) # "}" THEN NoQuantifier(i)
        ELSE IF hi.next = lo.next + 1 THEN Quantifier(lo.val, -1, hi.next + 1)
        ELSE Quantifier(lo.val, hi.val, hi.next + 1)))

\* The quantifier at index i, with its lazy mark.
QuantifierAt(p, i) ==
    With(At(p, i), LAMBDA c :
    With(IF c = "*" THEN Quantifier(0, -1, i + 1)
         ELSE IF c = "+" THEN Quantifier(1, -1, i + 1)
         ELSE IF c = "?" THEN Quantifier(0, 1, i + 1)
         ELSE IF c = "{" THEN BracedQuantifier(p, i)
         ELSE NoQuantifier(i), LAMBDA q :
        IF q.q /\ At(p, q.next) = "?" THEN [q EXCEPT !.next = q.next + 1] ELSE q))

\* Term :: Atom Quantifier?
Quantified(p, atom) ==
    IF atom.st # "ok" THEN atom
    ELSE With(QuantifierAt(p, atom.next), LAMBDA q :
             IF ~q.q THEN atom
             ELSE IF q.max # -1 /\ q.min > q.max THEN PatternError
             ELSE Parsed(RepNode(atom.node, q.min, q.max), q.next))

\* The number of capturing groups of the pattern.
RECURSIVE CountGroups(_, _, _)
CountGroups(p, i, inClass) ==
    IF i > Len(p) THEN 0
    ELSE IF p[i] = "\\" THEN CountGroups(p, i + 2, inClass)
    ELSE IF inClass THEN CountGroups(p, i + 1, p[i] # "]")
    ELSE IF p[i] = "[" THEN CountGroups(p, i + 1, TRUE)
    ELSE IF p[i] = "(" /\ At(p, i + 1) # "?"
         THEN 1 + CountGroups(p, i + 1, FALSE)
    ELSE CountGroups(p, i + 1, FALSE)

\* LegacyOctalEscapeSequence at index i.
Escaped(code, next) == [st |-> "ok", code |-> code, next |-> next]

LegacyOctal(p, i) ==
    With(DigitValue(p[i]), LAMBDA d1 :
    With(IsOctal(At(p, i + 1)), LAMBDA two :
        IF two /\ d1 <= 3 /\ IsOctal(At(p, i + 2))
        THEN Escaped(d1 * 64 + DigitValue(p[i + 1]) * 8 + DigitValue(p[i + 2]), i + 3)
        ELSE IF two THEN Escaped(d1 * 8 + DigitValue(p[i + 1]), i + 2)
        ELSE Escaped(d1, i + 1)))

\* The code unit of the four hexadecimal digits from index i.
Hex4(p, i) ==
    HexValue(p[i]) * 4096 + HexValue(p[i + 1]) * 256
        + HexValue(p[i + 2]) * 16 + HexValue(p[i + 3])

\* CharacterEscape: the code unit that the escape at index i (after the
\* backslash) stands for.  groups is the number of groups a decimal escape
\* may refer to, 0 inside a character class.
CharacterEscape(p, i, groups, inClass) ==
    With(p[i], LAMBDA e :
    With(At(p, i + 1), LAMBDA d :
        IF e = "t" THEN Escaped(9, i + 1)
        ELSE IF e = "n" THEN Escaped(10, i + 1)
        ELSE IF e = "v" THEN Escaped(11, i + 1)
        ELSE IF e = "f" THEN Escaped(12, i + 1)
        ELSE IF e = "r" THEN Escaped(13, i + 1)
        ELSE IF inClass /\ e = "b" THEN Escaped(8, i + 1)
        ELSE IF IsDigit(e) /\ e # "0" /\ ScanDigits(p, i, 0).val <= groups
             THEN [st |-> "unsupported", code |-> 0, next |-> 0]
        ELSE IF IsOctal(e) THEN LegacyOctal(p, i)
        ELSE IF e = "c"
             THEN IF IsLetter(d) \/ (inClass /\ (IsDigit(d) \/ d = "_"))
                  THEN Escaped(CodeUnit[d] % 32, i + 2)
                  ELSE Escaped(92, i)
        ELSE IF e = "x" /\ IsHex(d) /\ IsHex(At(p, i + 2))
             THEN Escaped(HexValue(d) * 16 + HexValue(p[i + 2]), i + 3)
        ELSE IF e = "u" /\ IsHex(d) /\ IsHex(At(p, i + 2))
                        /\ IsHex(At(p, i + 3)) /\ IsHex(At(p, i + 4))
             THEN With(Hex4(p, i + 1), LAMBDA code :
                      [st |-> IF code \in Codes THEN "ok" ELSE "unsupported",
                       code |-> code, next |-> i + 5])
        ELSE Escaped(CodeUnit[e], i + 1)))

\* CharacterClassEscape: \d \D \s \S \w \W.
ClassEscapes == {"d", "D", "s", "S", "w", "W"}
ClassEscape(e) ==
    IF e = "d" THEN 48..57
    ELSE IF e = "D" THEN Codes \ (48..57)
    ELSE IF e = "s" THEN SpaceCodes
    ELSE IF e = "S" THEN Codes \ SpaceCodes
    ELSE IF e = "w" THEN WordCodes
    ELSE Codes \ WordCodes

\* ClassAtom at index i of a character class.
\* One code unit of a character class, and a set of them.
OneUnit(st, code, next) ==
    [st |-> st, single |-> TRUE, code |-> code, set |-> {code}, next |-> next]
UnitSet(st, set, next) ==
    [st |-> st, single |-> FALSE, code |-> 0, set |-> set, next |-> next]

ClassAtom(p, i) ==
    IF p[i] # "\\" THEN OneUnit("ok", CodeUnit[p[i]], i + 1)
    ELSE IF At(p, i + 1) = "" THEN UnitSet("SyntaxError", {}, 0)
    ELSE IF p[i + 1] \in ClassEscapes
    THEN UnitSet("ok", ClassEscape(p[i + 1]), i + 2)
    ELSE With(CharacterEscape(p, i + 1, 0, TRUE), LAMBDA ce :
             OneUnit(ce.st, ce.code, ce.next))

\* ClassRanges from index i up to the closing bracket; acc is the set of
\* code units of the atoms and ranges read so far.
RECURSIVE ClassRanges(_, _, _, _)
ClassRanges(p, i, neg, acc) ==
    IF i > Len(p) THEN PatternError
    ELSE IF p[i] = "]"
    THEN With(Fold(acc), LAMBDA set :
             Parsed(CharsNode(IF neg THEN Codes \ set ELSE set), i + 1))
    ELSE
        With(ClassAtom(p, i), LAMBDA a :
            IF a.st # "ok" THEN [PatternError EXCEPT !.st = a.st]
            ELSE IF At(p, a.next) # "-" \/ At(p, a.next + 1) \in {"]", ""}
            THEN ClassRanges(p, a.next, neg, acc \cup a.set)
            ELSE With(ClassAtom(p, a.next + 1), LAMBDA b :
                IF b.st # "ok" THEN [PatternError EXCEPT !.st = b.st]
                ELSE IF a.single /\ b.single /\ a.code > b.code THEN PatternError
                ELSE ClassRanges(p, b.next, neg,
                         acc \cup IF a.single /\ b.single
                                  THEN {k \in Codes : a.code <= k /\ k <= b.code}
                                  ELSE a.set \cup {45} \cup b.set)))

\* CharacterClass after its opening bracket at index i - 1.
CharacterClass(p, i) ==
    With(At(p, i) = "^", LAMBDA neg :
        ClassRanges(p, IF neg THEN i + 1 ELSE i, neg, {}))

\* AtomEscape at index i, where p[i] is the backslash.
AtomEscape(p, i, groups) ==
    With(At(p, i + 1), LAMBDA e :
        IF e = "" THEN PatternError
        ELSE IF e \in ClassEscapes THEN Parsed(CharsNode(ClassEscape(e)), i + 2)
        ELSE With(CharacterEscape(p, i + 1, groups, FALSE), LAMBDA ce :
                 IF ce.st # "ok" THEN NotModelled
                 ELSE Parsed(CharsNode(Fold({ce.code})), ce.next)))

RECURSIVE Disjunction(_, _, _)
RECURSIVE Alternative(_, _, _, _)
RECURSIVE AfterTerm(_, _, _)
RECURSIVE Term(_, _, _)

\* A group at index i, where p[i] = "(".
Group(p, i, groups) ==
    With(At(p, i + 1) = "?", LAMBDA special :
    With(At(p, i + 2), LAMBDA d :
        IF special /\ d \notin {":", "=", "!"}
        THEN IF d \in {"<", "i", "m", "s", "-"} THEN NotModelled ELSE PatternError
        ELSE With(Disjunction(p, IF special THEN i + 3 ELSE i + 1, groups),
                  LAMBDA body :
                 IF body.st # "ok" THEN body
                 ELSE IF At(p, body.next) # ")" THEN PatternError
                 ELSE Parsed(IF special /\ d \in {"=", "!"}
                             THEN LookNode(d = "!", body.node)
                             ELSE body.node,
                             body.next + 1))))

\* Atom at index i, where p[i] = c is no assertion and no quantifier.
Atom(p, i, groups, c) ==
    IF c = "." THEN Parsed(CharsNode(Codes \ LineTerminators), i + 1)
    ELSE IF c = "(" THEN Group(p, i, groups)
    ELSE IF c = "[" THEN CharacterClass(p, i + 1)
    ELSE IF c = "\\" THEN AtomEscape(p, i, groups)
    ELSE Parsed(CharsNode(Fold({CodeUnit[c]})), i + 1)

Term(p, i, groups) ==
    With(p[i], LAMBDA c :
        IF c \in {"^", "$"} THEN Parsed(AssertNode(c), i + 1)
        ELSE IF c = "\\" /\ At(p, i + 1) \in {"b", "B"}
        THEN Parsed(AssertNode(p[i + 1]), i + 2)
        ELSE IF c \in {"*", "+", "?"} THEN PatternError
        ELSE IF c = "{" /\ BracedQuantifier(p, i).q THEN PatternError
        ELSE Quantified(p, Atom(p, i, groups, c)))

\* Alternative :: Alternative Term, where acc holds the terms read so far and
\* t.node is acc with the term just read.
AfterTerm(p, groups, t) ==
    IF t.st # "ok" THEN t ELSE Alternative(p, t.next, groups, t.node)

Joined(acc, t) ==
    IF t.st # "ok" THEN t ELSE Parsed(Append(acc, t.node), t.next)

Alternative(p, i, groups, acc) ==
    IF i > Len(p) \/ p[i] \in {"|", ")"} THEN Parsed(SeqNode(acc), i)
    ELSE AfterTerm(p, groups, Joined(acc, Term(p, i, groups)))

Disjunction(p, i, groups) ==
    With(Alternative(p, i, groups, <<>>), LAMBDA a :
        IF a.st # "ok" \/ At(p, a.next) # "|" THEN a
        ELSE With(Disjunction(p, a.next + 1, groups), LAMBDA r :
                 IF r.st # "ok" THEN r
                 ELSE Parsed(AltNode(a.node, r.node), r.next)))

\* new RegExp(pattern, 'i'): the parsed pattern, or the SyntaxError.
RegExp(pattern) ==
    With(Disjunction(pattern, 1, CountGroups(pattern, 1, FALSE)), LAMBDA d :
        IF d.st = "ok" /\ d.next <= Len(pattern) THEN PatternError ELSE d)

\* The assertion w holds between the code units i and i + 1 of t.
IsWordAt(t, i) == i >= 1 /\ i <= Len(t) /\ t[i] \in WordCodes

AssertionHolds(w, t, i) ==
    IF w = "^" THEN i = 0
    ELSE IF w = "$" THEN i = Len(t)
    ELSE IF w = "b" THEN IsWordAt(t, i) # IsWordAt(t, i + 1)
    ELSE IsWordAt(t, i) = IsWordAt(t, i + 1)

\* The offsets at which a match of node n that starts at an offset of S can
\* end in the code units t.
RECURSIVE Ends(_, _, _)
RECURSIVE EndsOfTerms(_, _, _, _, _)
RECURSIVE RepeatAtLeast(_, _, _, _)
RECURSIVE RepeatAtMost(_, _, _, _, _)

RepeatAtLeast(a, t, S, count) ==
    IF count = 0 \/ S = {} THEN S
    ELSE RepeatAtLeast(a, t, Ends(a, t, S), count - 1)

RepeatAtMost(a, t, frontier, seen, count) ==
    IF count = 0 \/ frontier = {} THEN seen \cup frontier
    ELSE RepeatAtMost(a, t, Ends(a, t, frontier) \ (seen \cup frontier),
                      seen \cup frontier, IF count < 0 THEN count ELSE count - 1)

\* The same for the terms lo..hi of a sequence, one after the other.
EndsOfTerms(items, lo, hi, t, S) ==
    IF lo > hi \/ S = {} THEN S
    ELSE IF lo = hi THEN Ends(items[lo], t, S)
    ELSE EndsOfTerms(items, ((lo + hi) \div 2) + 1, hi, t,
                     EndsOfTerms(items, lo, (lo + hi) \div 2, t, S))

Ends(n, t, S) ==
    CASE n.k = "seq" -> EndsOfTerms(n.items, 1, Len(n.items), t, S)
      [] n.k = "chars" -> {i + 1 : i \in {j \in S : j < Len(t) /\ t[j + 1] \in n.s}}
      [] n.k = "empty" -> S
      [] n.k = "alt" -> Ends(n.a, t, S) \cup Ends(n.b, t, S)
      [] n.k = "assert" -> {i \in S : AssertionHolds(n.w, t, i)}
      [] n.k = "look" -> {i \in S : (Ends(n.a, t, {i}) # {}) # n.neg}
      [] n.k = "rep" ->
            RepeatAtMost(n.a, t,
                         RepeatAtLeast(n.a, t, S,
                                       IF n.min > Len(t) + 1 THEN Len(t) + 1 ELSE n.min),
                         {}, IF n.max < 0 THEN -1 ELSE n.max - n.min)

\* RegExp.prototype.test of a parsed pattern.
test(regexp, text) ==
    Ends(regexp.node, [i \in DOMAIN text |-> CodeUnit[text[i]]], 0..Len(text)) # {}

\* The template literal `\\b${term}\\b`.
wordBoundaryPattern(term) == <<"\\", "b">> \o term \o <<"\\", "b">>

\* Variant: the expression has the leading \b only.
wordStartRegexTest(text, term) == test(RegExp(<<"\\", "b">> \o term), text)

\* new RegExp(`\\b${term}\\b`, 'i').test(text).
wordBoundaryRegexTest(text, term) == test(RegExp(wordBoundaryPattern(term)), text)

(***************************************************************************)
(* JavaScript numbers are IEEE 754 doubles.  A non-negative double is the  *)
(* record [m, e] of value m * 2^e, where the significand m is a natural    *)
(* number of exactly 53 bits, written as its digits in base 2^15, least    *)
(* significant first; zero is [m |-> <<>>, e |-> 0].  Every operation      *)
(* computes the exact result and rounds it to the nearest double, ties to  *)
(* the even significand, as the hardware does.  The scorers stay far from  *)
(* overflow, underflow and negative values, which are not modelled.        *)
(***************************************************************************)
LimbBits == 15
Base == 2^LimbBits
SignificandBits == 53

Pow2(k) == 2^k

Min(a, b) == IF a <= b THEN a ELSE b

Max(a, b) == IF a >= b THEN a ELSE b

Limb(a, i) == IF i <= Len(a) THEN a[i] ELSE 0

\* The digits without the leading zeros.
Trim(a) ==
    IF \A i \in DOMAIN a : a[i] = 0 THEN <<>>
    ELSE SubSeq(a, 1, CHOOSE i \in DOMAIN a :
                          a[i] # 0 /\ \A j \in (i + 1)..Len(a) : a[j] = 0)

\* The digits of an integer, and the integer of up to three digits.
BigOfInt(n) == Trim(<<n % Base, (n \div Base) % Base, n \div (Base * Base)>>)

IntOfBig(a) == Limb(a, 1) + Base * Limb(a, 2) + Base * Base * Limb(a, 3)

\* The carry into digit i of a sum whose digit sums are s: a digit below i
\* overflows and every digit between the two is Base - 1.
Carry(s, i) ==
    IF \E j \in 1..(i - 1) :
           s[j] >= Base /\ \A k \in (j + 1)..(i - 1) : s[k] = Base - 1
    THEN 1 ELSE 0

Carried(s) ==
    [i \in 1..(Len(s) + Carry(s, Len(s) + 1)) |-> (Limb(s, i) + Carry(s, i)) % Base]

BigAdd(a, b) ==
    Carried([i \in 1..Max(Len(a), Len(b)) |-> Limb(a, i) + Limb(b, i)])

\* The borrow from digit i of a difference whose digit differences are s: a
\* digit below i is negative and every digit between the two is 0.
Borrow(s, i) ==
    IF \E j \in 1..(i - 1) : s[j] < 0 /\ \A k \in (j + 1)..(i - 1) : s[k] = 0
    THEN 1 ELSE 0

Borrowed(s) == [i \in DOMAIN s |-> (s[i] - Borrow(s, i) + Base) % Base]

\* a - b for a >= b.
BigSub(a, b) == Trim(Borrowed([i \in DOMAIN a |-> a[i] - Limb(b, i)]))

\* a < b, for digits without leading zeros.
BigLess(a, b) ==
    IF Len(a) # Len(b) THEN Len(a) < Len(b)
    ELSE \E i \in DOMAIN a : a[i] < b[i] /\ \A j \in (i + 1)..Len(a) : a[j] = b[j]

\* a * s for 0 <= s < Base: the low halves of the digit products plus their
\* high halves one digit up.
BigMulSmall(a, s) ==
    Trim(BigAdd([i \in DOMAIN a |-> (a[i] * s) % Base],
                <<0>> \o [i \in DOMAIN a |-> (a[i] * s) \div Base]))

Zeros(n) == [i \in 1..n |-> 0]

\* a times the digits lo..hi of b, each in its place.
RECURSIVE MulRange(_, _, _, _)
MulRange(a, b, lo, hi) ==
    IF lo = hi THEN Zeros(lo - 1) \o BigMulSmall(a, b[lo])
    ELSE BigAdd(MulRange(a, b, lo, (lo + hi) \div 2),
                MulRange(a, b, ((lo + hi) \div 2) + 1, hi))

BigMul(a, b) == IF Len(b) = 0 THEN <<>> ELSE Trim(MulRange(a, b, 1, Len(b)))

\* The number of bits of a digit n and of a.
IntBitLen(n) == Cardinality({b \in 0..(LimbBits - 1) : 2^b <= n})

BitLen(a) ==
    IF Len(a) = 0 THEN 0 ELSE (Len(a) - 1) * LimbBits + IntBitLen(a[Len(a)])

\* a * 2^k and floor(a / 2^k).
ShiftLeft(a, k) ==
    IF Len(a) = 0 THEN <<>>
    ELSE Zeros(k \div LimbBits) \o BigMulSmall(a, Pow2(k % LimbBits))

ShiftRight(a, k) ==
    With(k \div LimbBits, LAMBDA drop :
    With(Pow2(k % LimbBits), LAMBDA low :
    With(IF drop >= Len(a) THEN <<>> ELSE SubSeq(a, drop + 1, Len(a)), LAMBDA rest :
        Trim([i \in 1..Len(rest) |->
                 (rest[i] \div low) + (Limb(rest, i + 1) % low) * (Base \div low)]))))

\* Bit k of a (bit 0 is the least significant), and whether a bit below
\* bit k is set.
BitAt(a, k) == (Limb(a, (k \div LimbBits) + 1) \div Pow2(k % LimbBits)) % 2

BitsBelow(a, k) ==
    \/ \E i \in 1..Min(k \div LimbBits, Len(a)) : a[i] # 0
    \/ Limb(a, (k \div LimbBits) + 1) % Pow2(k % LimbBits) # 0

Zero == [m |-> <<>>, e |-> 0]

\* The double nearest to a * 2^e, where sticky tells that the exact value is
\* above a * 2^e by less than 2^e; ties go to the even significand.
\* a * 2^e is rounded up: the first bit that is dropped is set, and so is a
\* bit below it or the last bit that is kept.
RoundsUp(a, d, sticky) ==
    BitAt(a, d - 1) = 1 /\ (sticky \/ BitsBelow(a, d - 1) \/ BitAt(a, d) = 1)

RoundToDouble(a, e, sticky) ==
    With(BitLen(a) - SignificandBits, LAMBDA d :
        IF Len(a) = 0 THEN Zero
        ELSE IF d <= 0 THEN [m |-> ShiftLeft(a, -d), e |-> e + d]
        ELSE With(IF RoundsUp(a, d, sticky)
                  THEN BigAdd(ShiftRight(a, d), <<1>>)
                  ELSE ShiftRight(a, d), LAMBDA r :
                 IF BitLen(r) > SignificandBits
                 THEN [m |-> ShiftRight(r, 1), e |-> e + d + 1]
                 ELSE [m |-> r, e |-> e + d]))

Number(n) == IF n = 0 THEN Zero ELSE RoundToDouble(BigOfInt(n), 0, FALSE)

\* x + y, x * y and x / y of non-negative doubles.
Plus(x, y) ==
    IF Len(x.m) = 0 THEN y
    ELSE IF Len(y.m) = 0 THEN x
    ELSE With(Min(x.e, y.e), LAMBDA e :
             RoundToDouble(BigAdd(ShiftLeft(x.m, x.e - e), ShiftLeft(y.m, y.e - e)),
                           e, FALSE))

Times(x, y) ==
    IF Len(x.m) = 0 \/ Len(y.m) = 0 THEN Zero
    ELSE RoundToDouble(BigMul(x.m, y.m), x.e + y.e, FALSE)

\* ((0 + xs[1]) + xs[2]) + ... + xs[count].
RECURSIVE Total(_, _)
Total(xs, count) ==
    IF count = 0 THEN Zero ELSE Plus(Total(xs, count - 1), xs[count])

\* The digit q of the quotient of r by d, where r < d * Base and the top
\* digit of d is at least Base / 2: the quotient of the top two digits of r
\* by the top digit of d is q, q + 1 or q + 2 (Knuth, TAOCP 4.3.1, Theorem B).
QuotientDigit(r, d) ==
    With(Min(Base - 1,
             (Limb(r, Len(d) + 1) * Base + Limb(r, Len(d))) \div d[Len(d)]),
         LAMBDA estimate :
        CHOOSE q \in Max(0, estimate - 2)..estimate :
            /\ ~BigLess(r, BigMulSmall(d, q))
            /\ q = estimate \/ BigLess(r, BigMulSmall(d, q + 1)))

\* One step of the long division by d in base 2^15: the next digit of the
\* quotient st.q and the remainder st.r that it leaves, where st.r < d.
DivisionStep(st, d) ==
    IF Len(st.r) = 0 THEN [q |-> <<0>> \o st.q, r |-> <<>>]
    ELSE With(QuotientDigit(<<0>> \o st.r, d), LAMBDA q :
             [q |-> <<q>> \o st.q, r |-> BigSub(<<0>> \o st.r, BigMulSmall(d, q))])

\* count steps of the long division from st.
RECURSIVE LongDivision(_, _, _)
LongDivision(st, d, count) ==
    IF count = 0 THEN st ELSE DivisionStep(LongDivision(st, d, count - 1), d)

\* The digits of the quotient after the point: the bits of a significand
\* and two more, in whole digits (60 bits).
QuotientDigits == (SignificandBits + 2 + LimbBits - 1) \div LimbBits

\* The quotient of the significands a by d, both of 53 bits, so below 2:
\* both are scaled to bring the top digit of d to Base / 2 or above.
DivideSignificands(a, d) ==
    With(LimbBits - IntBitLen(d[Len(d)]), LAMBDA scale :
    With(IF BigLess(a, d) THEN 0 ELSE 1, LAMBDA whole :
        LongDivision([q |-> <<whole>>,
                      r |-> ShiftLeft(BigSub(a, BigMulSmall(d, whole)), scale)],
                     ShiftLeft(d, scale), QuotientDigits)))

DividedBy(x, y) ==
    IF Len(x.m) = 0 THEN Zero
    ELSE With(DivideSignificands(x.m, y.m), LAMBDA qr :
             RoundToDouble(Trim(qr.q), x.e - y.e - QuotientDigits * LimbBits,
                           Len(qr.r) # 0))

\* x - y for x >= y.
Minus(x, y) ==
    IF Len(y.m) = 0 THEN x
    ELSE With(Min(x.e, y.e), LAMBDA e :
             RoundToDouble(BigSub(ShiftLeft(x.m, x.e - e), ShiftLeft(y.m, y.e - e)),
                           e, FALSE))

\* x < y.
Less(x, y) ==
    IF Len(y.m) = 0 THEN FALSE
    ELSE IF Len(x.m) = 0 THEN TRUE
    ELSE With(x.e + BitLen(x.m), LAMBDA top :
             IF top # y.e + BitLen(y.m) THEN top < y.e + BitLen(y.m)
             ELSE BigLess(x.m, y.m))

\* floor(a * 2^e + 1/2) as an integer.
RoundHalfUp(a, e) ==
    IF e >= 0 THEN IntOfBig(ShiftLeft(a, e))
    ELSE IntOfBig(ShiftRight(a, -e)) + (IF -e - 1 < BitLen(a) THEN BitAt(a, -e - 1) ELSE 0)

\* Math.round(x), an integer.
MathRound(x) == RoundHalfUp(x.m, x.e)

\* x.toFixed(1) and x.toFixed(2): the digits, as a number of tenths and of
\* hundredths.  The decimal nearest to the exact value of x is taken, the
\* larger one of two that are equally near.
toFixed1(x) == RoundHalfUp(BigMulSmall(x.m, 10), x.e)

toFixed2(x) == RoundHalfUp(BigMulSmall(x.m, 100), x.e)

\* a / b of two integers, b # 0.
Quotient(a, b) == DividedBy(Number(a), Number(b))

(***************************************************************************)
(* Math.pow(2, x) and Math.log2(n), which ECMAScript leaves to the         *)
(* implementation to approximate, are tabulated for the arguments the      *)
(* scorer passes: x = graded / (terms * 6) for queries of up to five       *)
(* terms, and n = position + 1 for the positions 1..10.  A pow entry is    *)
(* the value node's Math.pow returns (V8's ieee754 pow: sqrt for an        *)
(* exponent of 0.5, else the fdlibm evaluation closed by                   *)
(* (z*t1) / ((t1 - 2) - (w + z*w))); for x = 0.5333333333333333, 0.625,    *)
(* 0.7083333333333334, 0.75, 0.8333333333333334 and 0.9166666666666666     *)
(* that value is one ulp away from the double nearest to 2^x, for the      *)
(* other arguments it is the nearest double.  A log2 entry is the double   *)
(* nearest to the exact value.                                             *)
(***************************************************************************)
Pow2Table ==
    <<
      \* 2^(0)
      [x |-> [m |-> <<>>, e |-> 0],
       y |-> [m |-> <<0, 0, 0, 128>>, e |-> -52]],
      \* 2^(1/30)
      [x |-> [m |-> <<4369, 8738, 17476, 136>>, e |-> -57],
       y |-> [m |-> <<19802, 6838, 32501, 130>>, e |-> -52]],
      \* 2^(1/24)
      [x |-> [m |-> <<21845, 10922, 21845, 170>>, e |-> -57],
       y |-> [m |-> <<21969, 16002, 24598, 131>>, e |-> -52]],
      \* 2^(1/18)
      [x |-> [m |-> <<18204, 14563, 18204, 227>>, e |-> -57],
       y |-> [m |-> <<30712, 4219, 825, 133>>, e |-> -52]],
      \* 2^(1/15)
      [x |-> [m |-> <<4369, 8738, 17476, 136>>, e |-> -56],
       y |-> [m |-> <<27629, 30425, 1757, 134>>, e |-> -52]],
      \* 2^(1/12)
      [x |-> [m |-> <<21845, 10922, 21845, 170>>, e |-> -56],
       y |-> [m |-> <<31075, 9650, 20030, 135>>, e |-> -52]],
      \* 2^(1/10)
      [x |-> [m |-> <<6554, 13107, 26214, 204>>, e |-> -56],
       y |-> [m |-> <<1636, 23626, 6127, 137>>, e |-> -52]],
      \* 2^(1/9)
      [x |-> [m |-> <<18204, 14563, 18204, 227>>, e |-> -56],
       y |-> [m |-> <<19665, 28936, 8114, 138>>, e |-> -52]],
      \* 2^(1/8)
      [x |-> [m |-> <<0, 0, 0, 128>>, e |-> -55],
       y |-> [m |-> <<20859, 30970, 19168, 139>>, e |-> -52]],
      \* 2^(2/15)
      [x |-> [m |-> <<4369, 8738, 17476, 136>>, e |-> -55],
       y |-> [m |-> <<5801, 13095, 12897, 140>>, e |-> -52]],
      \* 2^(1/6)
      [x |-> [m |-> <<21845, 10922, 21845, 170>>, e |-> -55],
       y |-> [m |-> <<22208, 1935, 22123, 143>>, e |-> -52]],
      \* 2^(1/5)
      [x |-> [m |-> <<6554, 13107, 26214, 204>>, e |-> -55],
       y |-> [m |-> <<26229, 3445, 1094, 147>>, e |-> -52]],
      \* 2^(5/24)
      [x |-> [m |-> <<10923, 21845, 10922, 213>>, e |-> -55],
       y |-> [m |-> <<5834, 14349, 29004, 147>>, e |-> -52]],
      \* 2^(2/9)
      [x |-> [m |-> <<18204, 14563, 18204, 227>>, e |-> -55],
       y |-> [m |-> <<1269, 13658, 10345, 149>>, e |-> -52]],
      \* 2^(7/30)
      [x |-> [m |-> <<24030, 15291, 30583, 238>>, e |-> -55],
       y |-> [m |-> <<26867, 9355, 15405, 150>>, e |-> -52]],
      \* 2^(1/4)
      [x |-> [m |-> <<0, 0, 0, 128>>, e |-> -54],
       y |-> [m |-> <<14101, 5219, 7160, 152>>, e |-> -52]],
      \* 2^(4/15)
      [x |-> [m |-> <<4369, 8738, 17476, 136>>, e |-> -54],
       y |-> [m |-> <<24286, 23623, 32348, 153>>, e |-> -52]],
      \* 2^(5/18)
      [x |-> [m |-> <<7282, 25486, 7281, 142>>, e |-> -54],
       y |-> [m |-> <<22266, 2337, 5824, 155>>, e |-> -52]],
      \* 2^(7/24)
      [x |-> [m |-> <<10923, 21845, 10922, 149>>, e |-> -54],
       y |-> [m |-> <<15901, 22049, 22244, 156>>, e |-> -52]],
      \* 2^(3/10)
      [x |-> [m |-> <<13107, 26214, 19660, 153>>, e |-> -54],
       y |-> [m |-> <<809, 30719, 19217, 157>>, e |-> -52]],
      \* 2^(1/3)
      [x |-> [m |-> <<21845, 10922, 21845, 170>>, e |-> -54],
       y |-> [m |-> <<29323, 29466, 8843, 161>>, e |-> -52]],
      \* 2^(11/30)
      [x |-> [m |-> <<30583, 28398, 24029, 187>>, e |-> -54],
       y |-> [m |-> <<26398, 1381, 1291, 165>>, e |-> -52]],
      \* 2^(3/8)
      [x |-> [m |-> <<0, 0, 0, 192>>, e |-> -54],
       y |-> [m |-> <<10791, 10860, 32619, 165>>, e |-> -52]],
      \* 2^(7/18)
      [x |-> [m |-> <<3641, 29127, 3640, 199>>, e |-> -54],
       y |-> [m |-> <<14014, 31496, 19700, 167>>, e |-> -52]],
      \* 2^(2/5)
      [x |-> [m |-> <<6554, 13107, 26214, 204>>, e |-> -54],
       y |-> [m |-> <<21356, 10098, 29393, 168>>, e |-> -52]],
      \* 2^(5/12)
      [x |-> [m |-> <<10923, 21845, 10922, 213>>, e |-> -54],
       y |-> [m |-> <<27742, 4577, 28164, 170>>, e |-> -52]],
      \* 2^(13/30)
      [x |-> [m |-> <<15292, 30583, 28398, 221>>, e |-> -54],
       y |-> [m |-> <<10734, 5918, 27682, 172>>, e |-> -52]],
      \* 2^(4/9)
      [x |-> [m |-> <<18204, 14563, 18204, 227>>, e |-> -54],
       y |-> [m |-> <<4229, 30831, 5934, 174>>, e |-> -52]],
      \* 2^(11/24)
      [x |-> [m |-> <<21845, 10922, 21845, 234>>, e |-> -54],
       y |-> [m |-> <<22184, 9153, 28379, 175>>, e |-> -52]],
      \* 2^(7/15)
      [x |-> [m |-> <<24030, 15291, 30583, 238>>, e |-> -54],
       y |-> [m |-> <<8149, 23596, 28994, 176>>, e |-> -52]],
      \* 2^(1/2)
      [x |-> [m |-> <<0, 0, 0, 128>>, e |-> -53],
       y |-> [m |-> <<15309, 19710, 633, 181>>, e |-> -52]],
      \* 2^(8/15)
      [x |-> [m |-> <<4369, 8738, 17476, 136>>, e |-> -53],
       y |-> [m |-> <<820, 4970, 8207, 185>>, e |-> -52]],
      \* 2^(13/24)
      [x |-> [m |-> <<21845, 10922, 21845, 138>>, e |-> -53],
       y |-> [m |-> <<527, 31700, 10603, 186>>, e |-> -52]],
      \* 2^(5/9)
      [x |-> [m |-> <<7282, 25486, 7281, 142>>, e |-> -53],
       y |-> [m |-> <<1952, 8516, 4129, 188>>, e |-> -52]],
      \* 2^(17/30)
      [x |-> [m |-> <<8738, 17476, 2184, 145>>, e |-> -53],
       y |-> [m |-> <<6756, 12712, 19021, 189>>, e |-> -52]],
      \* 2^(7/12)
      [x |-> [m |-> <<10923, 21845, 10922, 149>>, e |-> -53],
       y |-> [m |-> <<20400, 11985, 25667, 191>>, e |-> -52]],
      \* 2^(3/5)
      [x |-> [m |-> <<13107, 26214, 19660, 153>>, e |-> -53],
       y |-> [m |-> <<11868, 1893, 384, 194>>, e |-> -52]],
      \* 2^(11/18)
      [x |-> [m |-> <<14564, 18204, 14563, 156>>, e |-> -53],
       y |-> [m |-> <<9040, 9153, 16767, 195>>, e |-> -52]],
      \* 2^(5/8)
      [x |-> [m |-> <<0, 0, 0, 160>>, e |-> -53],
       y |-> [m |-> <<8412, 1109, 13205, 197>>, e |-> -52]],
      \* 2^(19/30)
      [x |-> [m |-> <<17476, 2184, 4369, 162>>, e |-> -53],
       y |-> [m |-> <<104, 22254, 17908, 198>>, e |-> -52]],
      \* 2^(2/3)
      [x |-> [m |-> <<21845, 10922, 21845, 170>>, e |-> -53],
       y |-> [m |-> <<28220, 19066, 6138, 203>>, e |-> -52]],
      \* 2^(7/10)
      [x |-> [m |-> <<26214, 19660, 6553, 179>>, e |-> -53],
       y |-> [m |-> <<21309, 31132, 30690, 207>>, e |-> -52]],
      \* 2^(17/24)
      [x |-> [m |-> <<10923, 21845, 10922, 181>>, e |-> -53],
       y |-> [m |-> <<6072, 3971, 4626, 209>>, e |-> -52]],
      \* 2^(13/18)
      [x |-> [m |-> <<29127, 3640, 29127, 184>>, e |-> -53],
       y |-> [m |-> <<15460, 5915, 5384, 211>>, e |-> -52]],
      \* 2^(11/15)
      [x |-> [m |-> <<30583, 28398, 24029, 187>>, e |-> -53],
       y |-> [m |-> <<8636, 28360, 26112, 212>>, e |-> -52]],
      \* 2^(3/4)
      [x |-> [m |-> <<0, 0, 0, 192>>, e |-> -53],
       y |-> [m |-> <<21422, 12981, 8830, 215>>, e |-> -52]],
      \* 2^(23/30)
      [x |-> [m |-> <<2185, 4369, 8738, 196>>, e |-> -53],
       y |-> [m |-> <<5439, 11524, 25257, 217>>, e |-> -52]],
      \* 2^(7/9)
      [x |-> [m |-> <<3641, 29127, 3640, 199>>, e |-> -53],
       y |-> [m |-> <<32469, 24002, 14891, 219>>, e |-> -52]],
      \* 2^(19/24)
      [x |-> [m |-> <<21845, 10922, 21845, 202>>, e |-> -53],
       y |-> [m |-> <<28716, 30144, 18918, 221>>, e |-> -52]],
      \* 2^(4/5)
      [x |-> [m |-> <<6554, 13107, 26214, 204>>, e |-> -53],
       y |-> [m |-> <<24864, 13751, 28211, 222>>, e |-> -52]],
      \* 2^(5/6)
      [x |-> [m |-> <<10923, 21845, 10922, 213>>, e |-> -53],
       y |-> [m |-> <<16682, 3741, 2296, 228>>, e |-> -52]],
      \* 2^(13/15)
      [x |-> [m |-> <<15292, 30583, 28398, 221>>, e |-> -53],
       y |-> [m |-> <<21549, 18392, 13138, 233>>, e |-> -52]],
      \* 2^(7/8)
      [x |-> [m |-> <<0, 0, 0, 224>>, e |-> -53],
       y |-> [m |-> <<9351, 14839, 24675, 234>>, e |-> -52]],
      \* 2^(8/9)
      [x |-> [m |-> <<18204, 14563, 18204, 227>>, e |-> -53],
       y |-> [m |-> <<29772, 605, 784, 237>>, e |-> -52]],
      \* 2^(9/10)
      [x |-> [m |-> <<19661, 6553, 13107, 230>>, e |-> -53],
       y |-> [m |-> <<11026, 559, 28064, 238>>, e |-> -52]],
      \* 2^(11/12)
      [x |-> [m |-> <<21845, 10922, 21845, 234>>, e |-> -53],
       y |-> [m |-> <<4932, 20000, 20703, 241>>, e |-> -52]],
      \* 2^(14/15)
      [x |-> [m |-> <<24030, 15291, 30583, 238>>, e |-> -53],
       y |-> [m |-> <<31038, 30057, 14399, 244>>, e |-> -52]],
      \* 2^(17/18)
      [x |-> [m |-> <<25486, 7281, 25486, 241>>, e |-> -53],
       y |-> [m |-> <<2866, 18873, 10790, 246>>, e |-> -52]],
      \* 2^(23/24)
      [x |-> [m |-> <<10923, 21845, 10922, 245>>, e |-> -53],
       y |-> [m |-> <<17844, 20113, 23336, 248>>, e |-> -52]],
      \* 2^(29/30)
      [x |-> [m |-> <<28399, 24029, 15291, 247>>, e |-> -53],
       y |-> [m |-> <<21975, 30424, 5011, 250>>, e |-> -52]],
      \* 2^(1)
      [x |-> [m |-> <<0, 0, 0, 128>>, e |-> -52],
       y |-> [m |-> <<0, 0, 0, 128>>, e |-> -51]]
    >>

Log2Table ==
    <<
      \* log2(2)
      [m |-> <<0, 0, 0, 128>>, e |-> -52],
      \* log2(3)
      [m |-> <<15720, 18239, 28678, 202>>, e |-> -52],
      \* log2(4)
      [m |-> <<0, 0, 0, 128>>, e |-> -51],
      \* log2(5)
      [m |-> <<9073, 4851, 19772, 148>>, e |-> -51],
      \* log2(6)
      [m |-> <<24244, 9119, 14339, 165>>, e |-> -51],
      \* log2(7)
      [m |-> <<1069, 32424, 21977, 179>>, e |-> -51],
      \* log2(8)
      [m |-> <<0, 0, 0, 192>>, e |-> -51],
      \* log2(9)
      [m |-> <<15720, 18239, 28678, 202>>, e |-> -51],
      \* log2(10)
      [m |-> <<9073, 4851, 19772, 212>>, e |-> -51],
      \* log2(11)
      [m |-> <<23874, 30732, 13225, 221>>, e |-> -51]
    >>

MathPow2(x) == (CHOOSE r \in {Pow2Table[i] : i \in DOMAIN Pow2Table} : r.x = x).y

MathLog2(n) == Log2Table[n - 1]

(***************************************************************************)
(* Values of the scorers.  An argument is a record: results is "null",     *)
(* "undefined" or an "array" of rows [title, description, brand] (a field   *)
(* the row lacks is the empty string, which is what `field || ''` makes of  *)
(* it); query is a "string" or "undefined".  A call returns a number,      *)
(* throws the TypeError of a method call on undefined, or throws the       *)
(* SyntaxError of the RegExp constructor; a call that constructs a regular *)
(* expression outside the modelled grammar is "unsupported".               *)
(***************************************************************************)
Ret(v) == [state |-> "returned", value |-> v]
TypeError == [state |-> "threw TypeError", value |-> Zero]
SyntaxError == [state |-> "threw SyntaxError", value |-> Zero]
NotModelledCall == [state |-> "unsupported", value |-> Zero]
Pending == [state |-> "pending", value |-> Zero]

Null == [kind |-> "null", rows |-> <<>>]
Undefined == [kind |-> "undefined", rows |-> <<>>]
Array(rows) == [kind |-> "array", rows |-> rows]
Str(chars) == [kind |-> "string", chars |-> chars]
UndefinedQuery == [kind |-> "undefined", chars |-> <<>>]

\* !results || results.length === 0
NoResults(results) == results.kind # "array" \/ Len(results.rows) = 0

\* What the constructor calls of a scorer do: the expression of a term is
\* constructed when a text includes the term.
ConstructorStates(texts, terms) ==
    {RegExp(wordBoundaryPattern(terms[j])).st :
        j \in {t \in 1..Len(terms) :
                  \E i \in 1..Len(texts) : includes(texts[i], terms[t])}}

\* The outcome of a scorer that returns v unless a constructor throws.
Outcome(texts, terms, v) ==
    With(ConstructorStates(texts, terms), LAMBDA states :
        IF "SyntaxError" \in states THEN SyntaxError
        ELSE IF "unsupported" \in states THEN NotModelledCall
        ELSE Ret(v))

(***************************************************************************)
(* server.js, calculateRelevanceScore (lines 332-378).                     *)
(***************************************************************************)
\* Lines 338-339: the text of one result the terms are looked up in.
textOf(result) ==
    toLowerCase(Join3(result.title, result.description, result.brand))

\* Lines 340-355: termMatches and matchScore of one result.
termMatches(result, queryTerms) ==
    With(textOf(result), LAMBDA text :
        SumTo([j \in 1..Len(queryTerms) |->
                  IF includes(text, queryTerms[j]) THEN 1 ELSE 0],
              Len(queryTerms)))

matchScore(result, queryTerms) ==
    With(textOf(result), LAMBDA text :
        SumTo([j \in 1..Len(queryTerms) |->
                  IF includes(text, queryTerms[j])
                  THEN IF wordBoundaryRegexTest(text, queryTerms[j]) THEN 2 ELSE 1
                  ELSE 0],
              Len(queryTerms)))

\* Variant: the bonus is given once, whatever the number of terms in the title.
titleBonusOnce(result, queryTerms) ==
    IF \E j \in 1..Len(queryTerms) :
           includes(toLowerCase(result.title), queryTerms[j])
    THEN 3 ELSE 0

\* Lines 364-368: titleBonus of one result.
titleBonus(result, queryTerms) ==
    SumTo([j \in 1..Len(queryTerms) |->
              IF includes(toLowerCase(result.title), queryTerms[j]) THEN 3 ELSE 0],
          Len(queryTerms))

\* Line 358: termCoverage, and line 361: positionWeight.
termCoverage(result, queryTerms) ==
    DividedBy(Number(termMatches(result, queryTerms)), Number(Len(queryTerms)))

positionWeight(position) == DividedBy(Number(1), Number(position + 1))

\* Line 371: resultScore of the result at position (0-based).
resultScore(result, queryTerms, position) ==
    With(matchScore(result, queryTerms) + titleBonus(result, queryTerms),
         LAMBDA points :
        Times(Times(Number(points), termCoverage(result, queryTerms)),
              positionWeight(position)))

\* Line 372: totalScore after the first count results.
totalScore(rows, queryTerms, count) ==
    With([i \in 1..count |-> resultScore(rows[i], queryTerms, i - 1)],
         LAMBDA scores : Total(scores, count))

\* Math.min(100, x).
MathMin100(x) == IF Less(Number(100), x) THEN Number(100) ELSE x

calculateRelevanceScore(results, query) ==
    IF NoResults(results) THEN Ret(Zero)
    ELSE IF query.kind # "string" THEN TypeError
    ELSE
        With(split(toLowerCase(query.chars)), LAMBDA queryTerms :
        With(results.rows, LAMBDA rows :
        With(Len(rows) * Len(queryTerms) * 5, LAMBDA maxPossibleScore :
        With(totalScore(rows, queryTerms, Len(rows)), LAMBDA total :
            Outcome([i \in 1..Len(rows) |-> textOf(rows[i])], queryTerms,
                    MathMin100(Times(DividedBy(total, Number(maxPossibleScore)),
                                     Number(100))))))))

(***************************************************************************)
(* benchmark.js, calculateRelevance (lines 318-355) and the copy of        *)
(* server.js (lines 864-889), which has no field-query branch and reads     *)
(* title and brand only.                                                   *)
(***************************************************************************)
\* Lines 338-348: matchScore of one text.
matchScoreOf(text, searchTerms) ==
    SumTo([j \in 1..Len(searchTerms) |->
              IF includes(text, searchTerms[j])
              THEN 2 + (IF wordBoundaryRegexTest(text, searchTerms[j]) THEN 3 ELSE 0)
              ELSE 0],
          Len(searchTerms))

\* Lines 350-351: totalScore after the first count texts.
weightedTotal(texts, searchTerms, count) ==
    With([i \in 1..count |->
             Times(Number(matchScoreOf(texts[i], searchTerms)), positionWeight(i - 1))],
         LAMBDA scores : Total(scores, count))

\* Line 354: Math.round(totalScore), an integer.
roundedTotal(texts, searchTerms) ==
    MathRound(weightedTotal(texts, searchTerms, Len(texts)))

\* Lines 322-332: the search terms of a query.
searchTermsOf(chars) ==
    With(SplitColon(chars), LAMBDA parts :
        IF includes(chars, <<":">>) /\ Len(parts) = 2
        THEN <<toLowerCase(parts[2])>>
        ELSE split(stripPunctuation(toLowerCase(chars))))

\* Line 337: the text of every result.
textsOf(rows) ==
    [i \in 1..Len(rows) |->
        toLowerCase(Join3(rows[i].title, rows[i].brand, rows[i].description))]

\* Variant: the search terms are computed before the guard.
calculateRelevanceTermsFirst(results, query) ==
    IF query.kind # "string" THEN TypeError
    ELSE IF NoResults(results) THEN Ret(Zero)
    ELSE With(textsOf(results.rows), LAMBDA texts :
         With(searchTermsOf(query.chars), LAMBDA searchTerms :
         With(roundedTotal(texts, searchTerms), LAMBDA total :
             Outcome(texts, searchTerms, Number(total)))))

calculateRelevance(results, query) ==
    IF NoResults(results) THEN Ret(Zero)
    ELSE IF query.kind # "string" THEN TypeError
    ELSE With(textsOf(results.rows), LAMBDA texts :
         With(searchTermsOf(query.chars), LAMBDA searchTerms :
         With(roundedTotal(texts, searchTerms), LAMBDA total :
             Outcome(texts, searchTerms, Number(total)))))

calculateRelevanceServer(results, query) ==
    IF NoResults(results) THEN Ret(Zero)
    ELSE IF query.kind # "string" THEN TypeError
    ELSE
        With([i \in 1..Len(results.rows) |->
                 toLowerCase(results.rows[i].title \o <<" ">> \o results.rows[i].brand)],
             LAMBDA texts :
        With(split(stripPunctuation(toLowerCase(query.chars))), LAMBDA queryTerms :
        With(roundedTotal(texts, queryTerms), LAMBDA total :
            Outcome(texts, queryTerms, Number(total)))))

(***************************************************************************)
(* server.js, calculateNDCG (lines 381-421).                               *)
(***************************************************************************)
\* const k = 10, the default of the third parameter.
DefaultK == 10

\* Lines 390-399: the graded relevance of one result, before the division.
graded(result, queryTerms) ==
    With(toLowerCase(result.title), LAMBDA title :
    With(toLowerCase(result.description), LAMBDA description :
    With(toLowerCase(result.brand), LAMBDA brand :
        SumTo([j \in 1..Len(queryTerms) |->
                  (IF includes(title, queryTerms[j]) THEN 3 ELSE 0)
                + (IF includes(description, queryTerms[j]) THEN 1 ELSE 0)
                + (IF includes(brand, queryTerms[j]) THEN 2 ELSE 0)],
              Len(queryTerms)))))

\* Lines 385-402: relevanceScores, score / (queryTerms.length * 6) of each
\* result of results.slice(0, k).
relevanceScores(rows, queryTerms, k) ==
    With(SubSeq(rows, 1, Min(k, Len(rows))), LAMBDA topK :
        [i \in 1..Len(topK) |->
            DividedBy(Number(graded(topK[i], queryTerms)),
                      Number(Len(queryTerms) * 6))])

\* Variant: every position has the discount of the first.
dcgTermFlat(score, position) ==
    DividedBy(Minus(MathPow2(score), Number(1)), MathLog2(2))

\* (Math.pow(2, score) - 1) / Math.log2(position + 1).
dcgTerm(score, position) ==
    DividedBy(Minus(MathPow2(score), Number(1)), MathLog2(position + 1))

\* Lines 405-409 and 413-417: the discounted cumulative gain of the first
\* count scores.
dcgOf(scores) ==
    With([i \in DOMAIN scores |-> dcgTerm(scores[i], i)],
         LAMBDA terms : Total(terms, Len(terms)))

\* Variant: the ideal order is computed ascending.
sortAscending(scores) ==
    [p \in DOMAIN scores |->
        scores[CHOOSE i \in DOMAIN scores :
                   Cardinality({j \in DOMAIN scores :
                                    \/ Less(scores[j], scores[i])
                                    \/ j < i /\ scores[j] = scores[i]}) = p - 1]]

\* [...relevanceScores].sort((a, b) => b - a), a stable sort: the score at
\* index i comes after the larger scores and the equal scores before index i.
sortDescending(scores) ==
    [p \in DOMAIN scores |->
        scores[CHOOSE i \in DOMAIN scores :
                   Cardinality({j \in DOMAIN scores :
                                    \/ Less(scores[i], scores[j])
                                    \/ j < i /\ scores[j] = scores[i]}) = p - 1]]

\* Variant: the cumulative gain without the position discount.
dcgFlatOf(scores) ==
    With([i \in DOMAIN scores |-> dcgTermFlat(scores[i], i)],
         LAMBDA terms : Total(terms, Len(terms)))

dcgValueUndiscounted(results, query, k) ==
    dcgFlatOf(relevanceScores(results.rows, split(toLowerCase(query.chars)), k))

dcgValue(results, query, k) ==
    dcgOf(relevanceScores(results.rows, split(toLowerCase(query.chars)), k))

idcgValue(results, query, k) ==
    dcgOf(sortDescending(
        relevanceScores(results.rows, split(toLowerCase(query.chars)), k)))

calculateNDCG(results, query, k) ==
    IF NoResults(results) THEN Ret(Zero)
    ELSE IF query.kind # "string" THEN TypeError
    ELSE
        With(dcgValue(results, query, k), LAMBDA dcg :
        With(idcgValue(results, query, k), LAMBDA idcg :
            Ret(IF idcg = Zero THEN Zero
                ELSE Times(DividedBy(dcg, idcg), Number(100)))))

(***************************************************************************)
(* The scorers applied to inputs drawn from a small catalogue: the rows    *)
(* and the queries of the two end-to-end scenarios, a row that matches in  *)
(* its description only, a field query, a query of three terms and the     *)
(* missing values; and to the inputs of Scenarios.                         *)
(***************************************************************************)
MaxResults == 2

SamsungGalaxyPhone ==
    <<"S", "a", "m", "s", "u", "n", "g", " ", "G", "a", "l", "a", "x", "y",
      " ", "P", "h", "o", "n", "e">>
AppleWatch == <<"A", "p", "p", "l", "e", " ", "W", "a", "t", "c", "h">>
AppleIPhone13Pro ==
    <<"A", "p", "p", "l", "e", " ", "i", "P", "h", "o", "n", "e", " ", "1",
      "3", " ", "P", "r", "o">>
Apple == <<"A", "p", "p", "l", "e">>
Case == <<"C", "a", "s", "e">>
ForIphone == <<"f", "o", "r", " ", "i", "p", "h", "o", "n", "e">>
samsu == <<"s", "a", "m", "s", "u">>
appleIphone == <<"a", "p", "p", "l", "e", " ", "i", "p", "h", "o", "n", "e">>
iphone == <<"i", "p", "h", "o", "n", "e">>
brandApple == <<"b", "r", "a", "n", "d", ":", "a", "p", "p", "l", "e">>
forIphoneCase ==
    <<"f", "o", "r", " ", "i", "p", "h", "o", "n", "e", " ", "c", "a", "s", "e">>
IPhones == <<"i", "P", "h", "o", "n", "e", "s">>
CPlusPlusPrimer == <<"C", "+", "+", " ", "P", "r", "i", "m", "e", "r">>
cPlusPlus == <<"c", "+", "+">>
titleCPlusPlus == <<"t", "i", "t", "l", "e", ":", "c", "+", "+">>
CAFE == <<"C", "A", "F", "U+00C9">>
cafe == <<"c", "a", "f", "U+00E9">>
Istanbul == <<"U+0130", "s", "t", "a", "n", "b", "u", "l">>
istanbul == <<"i", "U+0307", "s", "t", "a", "n", "b", "u", "l">>
aFormFeedB == <<"a", "\f", "b">>
aSpaceB == <<"a", " ", "b">>
aDotB == <<"a", ".", "b">>
xaDotBaDashB == <<"x", "a", ".", "b", " ", "a", "-", "b">>
aBC == <<"a", " ", "b", " ", "c">>

Row(title, description, brand) ==
    [title |-> title, description |-> description, brand |-> brand]

Rows == { Row(SamsungGalaxyPhone, <<>>, <<>>),
          Row(AppleWatch, <<>>, <<>>),
          Row(AppleIPhone13Pro, <<>>, Apple),
          Row(Case, ForIphone, <<>>) }

Queries == { Str(samsu), Str(appleIphone), Str(iphone), Str(brandApple),
             Str(forIphoneCase), UndefinedQuery }

\* The lists of rows of the catalogue.
ResultLists ==
    {Null, Undefined} \cup {Array(r) : r \in SeqsUpTo(Rows, MaxResults)}

\* Inputs beside the catalogue: six results whose weighted sum is not a
\* double's sum of exact terms; a query with the metacharacter "+", as a
\* query and as a field query; a title and a query outside ASCII; a title
\* whose lower case is longer than the title; a query split at a form feed;
\* a term that reads as a pattern and matches where the term is not; a
\* query of three terms against a row that matches in its description.
Scenarios ==
    { <<Array(<<Row(AppleWatch, <<>>, <<>>), Row(AppleIPhone13Pro, <<>>, Apple),
               Row(AppleIPhone13Pro, <<>>, Apple), Row(AppleWatch, <<>>, <<>>),
               Row(AppleWatch, <<>>, <<>>), Row(IPhones, <<>>, <<>>)>>),
        Str(iphone)>>,
      <<Array(<<Row(CPlusPlusPrimer, <<>>, <<>>)>>), Str(cPlusPlus)>>,
      <<Array(<<Row(CPlusPlusPrimer, <<>>, <<>>)>>), Str(titleCPlusPlus)>>,
      <<Array(<<Row(CAFE, <<>>, <<>>)>>), Str(cafe)>>,
      <<Array(<<Row(Istanbul, <<>>, <<>>)>>), Str(istanbul)>>,
      <<Array(<<Row(aSpaceB, <<>>, <<>>)>>), Str(aFormFeedB)>>,
      <<Array(<<Row(xaDotBaDashB, <<>>, <<>>)>>), Str(aDotB)>>,
      <<Array(<<Row(<<"x">>, <<"a">>, <<>>)>>), Str(aBC)>> }

ScoreInputs == (ResultLists \X Queries) \cup Scenarios

Scorers == {"calculateRelevanceScore", "calculateNDCG", "calculateRelevance",
            "calculateRelevanceServer"}

ScoreInit ==
    /\ \E input \in ScoreInputs :
        /\ sResults = input[1]
        /\ sQuery = input[2]
    /\ sK \in {1, DefaultK}
    /\ sOut = [f \in Scorers |-> Pending]
    /\ BenchIdle
    /\ ApiIdle
    /\ IngestIdle

\* One call of scorer f on the input; v is what the call does.
Call(f, v) ==
    /\ sOut[f] = Pending
    /\ sOut' = [sOut EXCEPT ![f] = v]
    /\ UNCHANGED <<sResults, sQuery, sK, benchVars, apiVars, vars>>

CallRelevanceScore ==
    Call("calculateRelevanceScore", calculateRelevanceScore(sResults, sQuery))

CallNDCG == Call("calculateNDCG", calculateNDCG(sResults, sQuery, sK))

CallRelevance == Call("calculateRelevance", calculateRelevance(sResults, sQuery))

CallRelevanceServer ==
    Call("calculateRelevanceServer", calculateRelevanceServer(sResults, sQuery))

ScoreNext ==
    \/ CallRelevanceScore
    \/ CallNDCG
    \/ CallRelevance
    \/ CallRelevanceServer

ScoreSpec == ScoreInit /\ [][ScoreNext]_allVars

(***************************************************************************)
(* Properties of the scorers.                                              *)
(***************************************************************************)
\* The call of scorer f has returned a number.
HasReturned(f) == sOut[f].state = "returned"

\* The input is a list of at least one row and a query string.
Scorable == ~NoResults(sResults) /\ sQuery.kind = "string"

\* C15: for every result list and every query, calculateNDCG returns a value
\* in [0, 100] (a number is never below 0 here: no result is above 100);
\* when IDCG is 0 (no result has any relevance) it returns 0, and it never
\* divides by zero.
C15_NDCGInRange ==
    HasReturned("calculateNDCG") =>
        /\ ~Less(Number(100), sOut["calculateNDCG"].value)
        /\ (Scorable /\ idcgValue(sResults, sQuery, sK) = Zero)
               => sOut["calculateNDCG"].value = Zero

\* calculateNDCG returned for a non-empty list none of whose rows matches.
C15_Witness ==
    /\ HasReturned("calculateNDCG")
    /\ Scorable
    /\ idcgValue(sResults, sQuery, sK) = Zero

\* The graded relevance of every row of the input, in list order.
gradedScores ==
    relevanceScores(sResults.rows, split(toLowerCase(sQuery.chars)),
                    Len(sResults.rows))

IsDescending(scores) ==
    \A i \in 1..(Len(scores) - 1) : ~Less(scores[i], scores[i + 1])

\* C16 as stated: for every non-empty result list whose results are already
\* in descending order of graded relevance, calculateNDCG returns 100.
C16_SortedListScores100 ==
    (HasReturned("calculateNDCG") /\ Scorable /\ IsDescending(gradedScores))
        => sOut["calculateNDCG"].value = Number(100)

\* C16, amended: for every non-empty result list in descending order of
\* graded relevance whose top k holds a result of non-zero relevance,
\* calculateNDCG returns 100; when no result of the top k has any relevance
\* it returns 0.
C16_SortedRelevantListScores100 ==
    (HasReturned("calculateNDCG") /\ Scorable /\ IsDescending(gradedScores))
        => sOut["calculateNDCG"].value =
               IF idcgValue(sResults, sQuery, sK) = Zero THEN Zero ELSE Number(100)

\* calculateNDCG returned 100 for a descending list of two rows of differing,
\* non-zero relevance.
C16_Witness ==
    /\ HasReturned("calculateNDCG")
    /\ Scorable
    /\ sK = DefaultK
    /\ Len(gradedScores) = 2
    /\ Less(gradedScores[2], gradedScores[1])
    /\ gradedScores[2] # Zero
    /\ sOut["calculateNDCG"].value = Number(100)

\* The orderings of a list of n rows.
Perms(n) == {f \in [1..n -> 1..n] : \A i, j \in 1..n : f[i] = f[j] => i = j}

Permute(rows, f) == [i \in 1..Len(rows) |-> rows[f[i]]]

gradedOf(rows) ==
    relevanceScores(rows, split(toLowerCase(sQuery.chars)), Len(rows))

\* C17: IDCG is the same for every permutation of a result list, and for a
\* list of at most k results with two results of differing graded relevance,
\* an ordering that is not in descending order of relevance gets an NDCG
\* strictly lower than the NDCG of the descending order.
C17_WorseOrderScoresLower ==
    (HasReturned("calculateNDCG") /\ Scorable /\ Len(sResults.rows) <= sK) =>
        \A f \in Perms(Len(sResults.rows)) :
            LET p == Permute(sResults.rows, f)
            IN /\ idcgValue(Array(p), sQuery, sK)
                      = idcgValue(sResults, sQuery, sK)
               /\ (IsDescending(gradedOf(p)) /\ ~IsDescending(gradedScores))
                      => Less(sOut["calculateNDCG"].value,
                              calculateNDCG(Array(p), sQuery, sK).value)

\* calculateNDCG returned for a list of at most k rows that is not in
\* descending order of relevance.
C17_Witness ==
    /\ HasReturned("calculateNDCG")
    /\ Scorable
    /\ Len(sResults.rows) <= sK
    /\ ~IsDescending(gradedScores)
    /\ sOut["calculateNDCG"].value # Zero

\* C18: for every query, each relevance scorer and calculateNDCG return 0
\* when the result set is empty, null or undefined, without evaluating the
\* query: also when the query is not a string.
C18_NoResultsScoreZero ==
    \A f \in Scorers :
        (sOut[f] # Pending /\ NoResults(sResults)) => sOut[f] = Ret(Zero)

\* Every scorer was called on undefined results with an undefined query.
C18_Witness ==
    /\ sResults = Undefined
    /\ sQuery = UndefinedQuery
    /\ \A f \in Scorers : HasReturned(f)

\* The fuzzy scenario: query "samsu" against two rows that have a title only.
SamsuScenario ==
    /\ sResults = Array(<<Row(SamsungGalaxyPhone, <<>>, <<>>),
                          Row(AppleWatch, <<>>, <<>>)>>)
    /\ sQuery = Str(samsu)

TermScorers ==
    {"calculateRelevanceScore", "calculateRelevance", "calculateRelevanceServer"}

\* C19 as stated: for query "samsu" against [{title: "Samsung Galaxy Phone"},
\* {title: "Apple Watch"}] the term has no substring or whole-word match in
\* either title, so the term-overlap relevance is 0 and the scorer returns 0.
C19_SamsuScoresZero ==
    \A f \in TermScorers :
        (SamsuScenario /\ HasReturned(f)) =>
            /\ ~includes(toLowerCase(SamsungGalaxyPhone), samsu)
            /\ ~includes(toLowerCase(AppleWatch), samsu)
            /\ sOut[f].value = Zero

\* What each term scorer returns in the fuzzy scenario.
SamsuScore(f) ==
    IF f = "calculateRelevanceScore" THEN Number(40) ELSE Number(2)

\* C19, amended: "samsu" is a substring, not a whole word, of "samsung galaxy
\* phone" and does not occur in "apple watch"; the first row scores the
\* substring points and calculateRelevance returns 2 (both copies),
\* calculateRelevanceScore returns 40.
C19_SamsuScoresSubstring ==
    \A f \in TermScorers :
        (SamsuScenario /\ HasReturned(f)) =>
            /\ includes(toLowerCase(SamsungGalaxyPhone), samsu)
            /\ ~wordBoundaryRegexTest(toLowerCase(SamsungGalaxyPhone), samsu)
            /\ ~includes(toLowerCase(AppleWatch), samsu)
            /\ sOut[f].value = SamsuScore(f)

\* The three term scorers have returned in the fuzzy scenario.
C19_Witness ==
    /\ SamsuScenario
    /\ \A f \in TermScorers : HasReturned(f)

\* The exact-match scenario: query "apple iphone" against one row.
IPhoneRow == Row(AppleIPhone13Pro, <<>>, Apple)

IPhoneScenario ==
    /\ sResults = Array(<<IPhoneRow>>)
    /\ sQuery = Str(appleIphone)

\* C20: for query "apple iphone" against the single result {title: "Apple
\* iPhone 13 Pro", brand: "Apple"} at position 0, calculateRelevanceScore
\* counts both terms as whole-word matches (matchScore 4), gives the title
\* bonus for both (6), has termCoverage 1 (both of the two terms match) and
\* positionWeight 1, and returns the maximal normalized relevance 100.
C20_IPhoneScoresMaximum ==
    (IPhoneScenario /\ HasReturned("calculateRelevanceScore")) =>
        LET queryTerms == split(toLowerCase(sQuery.chars))
        IN /\ queryTerms = <<toLowerCase(Apple), iphone>>
           /\ matchScore(IPhoneRow, queryTerms) = 4
           /\ titleBonus(IPhoneRow, queryTerms) = 6
           /\ termMatches(IPhoneRow, queryTerms) = Len(queryTerms)
           /\ termCoverage(IPhoneRow, queryTerms) = Number(1)
           /\ positionWeight(0) = Number(1)
           /\ sOut["calculateRelevanceScore"].value = Number(100)

\* calculateRelevanceScore has returned in the exact-match scenario.
C20_Witness ==
    /\ IPhoneScenario
    /\ HasReturned("calculateRelevanceScore")

(***************************************************************************)
(* benchmark.js: the benchmark run.  The read loop runs queries.slice(0, 5) *)
(* of every search type of testQueries on both engines.  The stores are    *)
(* the environment: the rows a store answers a search with, its latency    *)
(* the indexes and the rows its table holds are chosen when the run        *)
(* begins; a store may reject up to MaxStoreErrors single statements, and  *)
(* one store may reject every statement of one search type, or every       *)
(* INSERT.  The message of the error a store throws may be empty.  A run   *)
(* meets stores that are out of the ordinary in one of these respects.     *)
(***************************************************************************)
MaxStoreErrors == 1
MaxDuration == 1

wirelessHeadphones ==
    <<"w", "i", "r", "e", "l", "e", "s", "s", " ", "h", "e", "a", "d", "p",
      "h", "o", "n", "e", "s">>
samsungGalaxy ==
    <<"s", "a", "m", "s", "u", "n", "g", " ", "g", "a", "l", "a", "x", "y">>
laptopComputer ==
    <<"l", "a", "p", "t", "o", "p", " ", "c", "o", "m", "p", "u", "t", "e",
      "r">>
digitalCamera ==
    <<"d", "i", "g", "i", "t", "a", "l", " ", "c", "a", "m", "e", "r", "a">>
bluetoothSpeaker ==
    <<"b", "l", "u", "e", "t", "o", "o", "t", "h", " ", "s", "p", "e", "a",
      "k", "e", "r">>
gamingMouse ==
    <<"g", "a", "m", "i", "n", "g", " ", "m", "o", "u", "s", "e">>
mechanicalKeyboard ==
    <<"m", "e", "c", "h", "a", "n", "i", "c", "a", "l", " ", "k", "e", "y",
      "b", "o", "a", "r", "d">>
smartWatch ==
    <<"s", "m", "a", "r", "t", " ", "w", "a", "t", "c", "h">>
monitor4k ==
    <<"4", "k", " ", "m", "o", "n", "i", "t", "o", "r">>
coffeeMaker ==
    <<"c", "o", "f", "f", "e", "e", " ", "m", "a", "k", "e", "r">>
airFryer ==
    <<"a", "i", "r", " ", "f", "r", "y", "e", "r">>
laptopANDGaming ==
    <<"l", "a", "p", "t", "o", "p", " ", "A", "N", "D", " ", "g", "a", "m",
      "i", "n", "g">>
phoneORTablet ==
    <<"p", "h", "o", "n", "e", " ", "O", "R", " ", "t", "a", "b", "l", "e",
      "t">>
cameraNOTDigital ==
    <<"c", "a", "m", "e", "r", "a", " ", "N", "O", "T", " ", "d", "i", "g",
      "i", "t", "a", "l">>
wirelessANDHeadphonesOREarbuds ==
    <<"w", "i", "r", "e", "l", "e", "s", "s", " ", "A", "N", "D", " ", "(",
      "h", "e", "a", "d", "p", "h", "o", "n", "e", "s", " ", "O", "R", " ",
      "e", "a", "r", "b", "u", "d", "s", ")">>
appleORMicrosoftORGoogle ==
    <<"a", "p", "p", "l", "e", " ", "O", "R", " ", "m", "i", "c", "r", "o",
      "s", "o", "f", "t", " ", "O", "R", " ", "g", "o", "o", "g", "l", "e">>
laptopANDDellORHpORLenovo ==
    <<"l", "a", "p", "t", "o", "p", " ", "A", "N", "D", " ", "(", "d", "e",
      "l", "l", " ", "O", "R", " ", "h", "p", " ", "O", "R", " ", "l", "e",
      "n", "o", "v", "o", ")">>
gamingANDKeyboardANDMechanical ==
    <<"g", "a", "m", "i", "n", "g", " ", "A", "N", "D", " ", "k", "e", "y",
      "b", "o", "a", "r", "d", " ", "A", "N", "D", " ", "m", "e", "c", "h",
      "a", "n", "i", "c", "a", "l">>
speakerANDBluetoothANDWaterproof ==
    <<"s", "p", "e", "a", "k", "e", "r", " ", "A", "N", "D", " ", "b", "l",
      "u", "e", "t", "o", "o", "t", "h", " ", "A", "N", "D", " ", "w", "a",
      "t", "e", "r", "p", "r", "o", "o", "f">>
titleIphone ==
    <<"t", "i", "t", "l", "e", ":", "i", "p", "h", "o", "n", "e">>
brandSamsung ==
    <<"b", "r", "a", "n", "d", ":", "s", "a", "m", "s", "u", "n", "g">>
titleLaptop ==
    <<"t", "i", "t", "l", "e", ":", "l", "a", "p", "t", "o", "p">>
descriptionWireless ==
    <<"d", "e", "s", "c", "r", "i", "p", "t", "i", "o", "n", ":", "w", "i",
      "r", "e", "l", "e", "s", "s">>
titleCamera ==
    <<"t", "i", "t", "l", "e", ":", "c", "a", "m", "e", "r", "a">>
brandSony ==
    <<"b", "r", "a", "n", "d", ":", "s", "o", "n", "y">>
titleHeadphones ==
    <<"t", "i", "t", "l", "e", ":", "h", "e", "a", "d", "p", "h", "o", "n",
      "e", "s">>
descriptionGaming ==
    <<"d", "e", "s", "c", "r", "i", "p", "t", "i", "o", "n", ":", "g", "a",
      "m", "i", "n", "g">>
brandMicrosoft ==
    <<"b", "r", "a", "n", "d", ":", "m", "i", "c", "r", "o", "s", "o", "f",
      "t">>
iphon ==
    <<"i", "p", "h", "o", "n">>
wirelesHeaphones ==
    <<"w", "i", "r", "e", "l", "e", "s", " ", "h", "e", "a", "p", "h", "o",
      "n", "e", "s">>
blutoothSpeker ==
    <<"b", "l", "u", "t", "o", "o", "t", "h", " ", "s", "p", "e", "k", "e",
      "r">>
mechenicalKeybord ==
    <<"m", "e", "c", "h", "e", "n", "i", "c", "a", "l", " ", "k", "e", "y",
      "b", "o", "r", "d">>
digtalCamra ==
    <<"d", "i", "g", "t", "a", "l", " ", "c", "a", "m", "r", "a">>
cofeeMakr ==
    <<"c", "o", "f", "e", "e", " ", "m", "a", "k", "r">>
laptpComputr ==
    <<"l", "a", "p", "t", "p", " ", "c", "o", "m", "p", "u", "t", "r">>
gamngMous ==
    <<"g", "a", "m", "n", "g", " ", "m", "o", "u", "s">>
smartWach ==
    <<"s", "m", "a", "r", "t", " ", "w", "a", "c", "h">>
gamingKeyboard ==
    <<"g", "a", "m", "i", "n", "g", " ", "k", "e", "y", "b", "o", "a", "r",
      "d">>

\* Object.entries(testQueries): the search types in insertion order.
SearchTypes == <<"fulltext", "boolean", "field", "fuzzy", "exact">>

\* const testQueries (lines 28-52).
testQueries ==
    [fulltext |->
         <<wirelessHeadphones, appleIphone, samsungGalaxy, laptopComputer,
           digitalCamera, bluetoothSpeaker, gamingMouse, mechanicalKeyboard,
           smartWatch, monitor4k, coffeeMaker, airFryer>>,
     boolean |->
         <<laptopANDGaming, phoneORTablet, cameraNOTDigital,
           wirelessANDHeadphonesOREarbuds, appleORMicrosoftORGoogle,
           laptopANDDellORHpORLenovo, gamingANDKeyboardANDMechanical,
           speakerANDBluetoothANDWaterproof>>,
     field |->
         <<titleIphone, brandSamsung, titleLaptop, brandApple,
           descriptionWireless, titleCamera, brandSony, titleHeadphones,
           descriptionGaming, brandMicrosoft>>,
     fuzzy |->
         <<samsu, iphon, wirelesHeaphones, blutoothSpeker, mechenicalKeybord,
           digtalCamra, cofeeMakr, laptpComputr, gamngMous, smartWach>>,
     exact |->
         <<wirelessHeadphones, appleIphone, samsungGalaxy, digitalCamera,
           bluetoothSpeaker, gamingKeyboard, monitor4k, coffeeMaker,
           smartWatch, airFryer>>]

\* queries.slice(0, 5)
SliceEnd == 5

Engines == {"vanilla", "parade"}

\* for (const [searchType, queries] of Object.entries(testQueries))
TypesRun == SearchTypes

QueriesOf(searchType) ==
    SubSeq(testQueries[searchType], 1,
           Min(SliceEnd, Len(testQueries[searchType])))

\* The flags of the command line (lines 4-7 and 665).
Flags == {"--help", "--reads-only", "--writes-only"}

\* const runReads, const runWrites (lines 5-7).
runReads == "--writes-only" \notin bArgs
runWrites == "--reads-only" \notin bArgs

\* Rows a store may answer a search with.
GamingLaptop == <<"G", "a", "m", "i", "n", "g", " ", "L", "a", "p", "t", "o", "p">>

ResultSets == { <<>>, <<IPhoneRow, Row(GamingLaptop, <<>>, <<>>)>> }

\* The error property of the value a query function returns: absent, or
\* err.message of the error that was caught.
NoError == [kind |-> "undefined", chars |-> <<>>]

\* err.message of the errors a store throws: a text, or the empty string.
storeError == <<"s", "t", "o", "r", "e", " ", "e", "r", "r", "o", "r">>
ErrorMessages == {<<>>, storeError}

\* !result.error: the property is absent or is the empty string.
IsFalsy(error) == error.kind # "string" \/ error.chars = <<>>

\* Lines 204-209 and 310-315: the value returned after the switch.
QueryOk(duration, rows) ==
    [duration |-> duration, count |-> Len(rows), results |-> rows,
     error |-> NoError]

\* Lines 200-201 and 306-307: the value the catch block returns,
\* { duration: 0, count: 0, results: [], error: err.message }.
QueryFailed(message) ==
    [duration |-> 0, count |-> 0, results |-> <<>>, error |-> Str(message)]

\* vanillaResult and paradeResult outside the loop body.
NoQuery ==
    [duration |-> 0, count |-> 0, results |-> <<>>,
     error |-> Str(<<"n", "o", "t", " ", "r", "u", "n">>)]

\* The cases of switch(searchType) in runVanillaQuery and runParadeQuery.
SwitchCases == {"fulltext", "boolean", "field", "fuzzy", "exact"}

ZeroTotals == [totalTime |-> 0, totalRelevance |-> 0, queries |-> 0]
NotThrown == [threw |-> FALSE, message |-> <<>>]
ZeroHistory == [run |-> 0, ok |-> 0, time |-> 0, rel |-> 0, last |-> NotThrown]

CurrentType == SearchTypes[bType]
CurrentQuery == QueriesOf(CurrentType)[bQuery]

\* No store is out of service.
NoOutage == [type |-> "none", engine |-> "none", message |-> <<>>]

\* A store that rejects every statement of one search type, with the same
\* error each time, or every INSERT.
Outages ==
    {NoOutage}
        \cup [type : SeqToSet(SearchTypes), engine : Engines,
              message : ErrorMessages]
        \cup [type : {"insert"}, engine : Engines, message : {storeError}]

\* vanillaCount.rows[0].count > 1000000 of verifySetup (line 127).
SetupRows == 1000000

\* The rows a table may hold when the run begins: none, fewer than any
\* update test asks for, the count that verifySetup still refuses, and the
\* count of a loaded table.
FewRows == 40
LoadedRows == SetupRows + 1
HeldRows == {0, FewRows, SetupRows, LoadedRows}

\* vanillaIndexes.rows.length >= 11 && paradeIndexes.rows.length >= 2 of
\* verifySetup (line 127), and the index counts a store may have.
IndexesNeeded == [vanilla |-> 11, parade |-> 2]
IndexChoices ==
    {f \in [Engines -> 0..IndexesNeeded["vanilla"]] :
        \A e \in Engines : f[e] \in {IndexesNeeded[e] - 1, IndexesNeeded[e]}}

\* The ordinary stores: both answer a search with rows, have the indexes
\* and a loaded table, and are in service.
FullResult == <<IPhoneRow, Row(GamingLaptop, <<>>, <<>>)>>
OrdinaryStores ==
    [rows |-> [e \in Engines |-> FullResult],
     held |-> [e \in Engines |-> LoadedRows],
     indexes |-> IndexesNeeded,
     outage |-> NoOutage]

\* The stores a run may meet: out of the ordinary in one respect, or, when
\* a store rejects every INSERT, also in the rows the tables hold.
StoreChoices ==
    {s \in [rows : [Engines -> ResultSets],
            latency : [Engines -> 1..MaxDuration],
            held : [Engines -> HeldRows],
            indexes : IndexChoices,
            outage : Outages] :
        \/ Cardinality({c \in DOMAIN OrdinaryStores : s[c] # OrdinaryStores[c]}) <= 1
        \/ /\ s.outage.type = "insert"
           /\ s.rows = OrdinaryStores.rows
           /\ s.indexes = OrdinaryStores.indexes}

\* The store of engine e rejects the statements of the current search type.
StoreDown(e) ==
    bStores.outage.type = CurrentType /\ bStores.outage.engine = e

\* The store of engine e rejects every INSERT.
InsertsRejected(e) ==
    bStores.outage.type = "insert" /\ bStores.outage.engine = e

\* A store error is injected: the budget of the run allows one more.
MayFail == bFaults < MaxStoreErrors

\* The store answered the statement, and the value returned after the switch.
Answered(e) ==
    [threw |-> FALSE, message |-> <<>>,
     result |-> QueryOk(bStores.latency[e], bStores.rows[e])]

\* The store threw an error with this message, and the value the catch
\* block returns.
Caught(message) ==
    [threw |-> TRUE, message |-> message, result |-> QueryFailed(message)]

\* What runVanillaQuery / runParadeQuery may do for a search type the switch
\* has a case for: return the rows of the store with the measured duration,
\* or, when the store throws, return the value of the catch block, whose
\* error is the message thrown.
QueryOutcomes(e) ==
    IF StoreDown(e) THEN {Caught(bStores.outage.message)}
    ELSE {Answered(e)}
             \cup (IF MayFail THEN {Caught(m) : m \in ErrorMessages} ELSE {})

\* The store errors injected once engine e has answered with outcome o.
FaultsAfter(e, o) ==
    bFaults + (IF o.threw /\ ~StoreDown(e) THEN 1 ELSE 0)

\* The queries of the read loop.
LoopQueries ==
    UNION {SeqToSet(QueriesOf(TypesRun[i])) : i \in 1..Len(TypesRun)}

\* calculateRelevance(result.results, query) at lines 538-539, for every query
\* of the loop and every result a store may give; the copy of
\* the script in server.js (lines 1038-1039) calls its own calculateRelevance.
\* No query of testQueries makes a search term with a character that is
\* special in a regular expression, so the call returns.
Relevances ==
    [program \in {"benchmark.js", "server.js"} |->
        [query \in LoopQueries |->
            [rows \in ResultSets |->
                IF program = "server.js"
                THEN MathRound(calculateRelevanceServer(Array(rows), Str(query)).value)
                ELSE MathRound(calculateRelevance(Array(rows), Str(query)).value)]]]

relevanceOf(result, query) == Relevances[bProgram][query][result.results]

\* History: one more query of the current type was run on engine e, with
\* outcome o; ok, time and rel are those of the queries the store answered,
\* last tells whether the store threw for this query, and with what message.
Record(e, o) ==
    executed' = [executed EXCEPT ![CurrentType][e] =
        [run |-> @.run + 1,
         ok |-> @.ok + (IF o.threw THEN 0 ELSE 1),
         time |-> @.time + (IF o.threw THEN 0 ELSE o.result.duration),
         rel |-> @.rel + (IF o.threw THEN 0
                           ELSE relevanceOf(o.result, CurrentQuery)),
         last |-> [threw |-> o.threw, message |-> o.message]]]

BenchInit ==
    /\ bpc = "main"
    /\ setupOk = "unknown"
    /\ bArgs \in SUBSET Flags
    /\ bType = 0
    /\ bQuery = 0
    /\ vanillaResult = NoQuery
    /\ paradeResult = NoQuery
    /\ readResults = <<>>
    /\ writeResults = <<>>
    /\ vanillaWrite = NoWrite
    /\ report = [printed |-> FALSE, usage |-> FALSE, read |-> <<>>, write |-> <<>>]
    /\ exitCode = -1
    /\ bWrite = 0
    /\ executed = [t \in SeqToSet(TypesRun) |-> [e \in Engines |-> ZeroHistory]]
    /\ bFaults = 0
    /\ bStores \in StoreChoices
    /\ bProgram = "benchmark.js"
    /\ ApiIdle
    /\ sResults = Null
    /\ sQuery = UndefinedQuery
    /\ sK = 0
    /\ sOut = <<>>
    /\ IngestIdle

\* Where runBenchmark goes after the read phase and after verifySetup.
AfterReads == IF runWrites THEN "write" ELSE "summary"
AfterVerify == IF runReads THEN "nextType" ELSE AfterReads

\* A sample of performance.now() - start for a write test, in ms.
SampleMillis == 500

\* The write tests of lines 563-603 in call order: the key of writeResults,
\* the function, the engine, the row count, and the batch size of testWrites.
WriteTests ==
    <<[key |-> "smallBatch", fn |-> "testWrites", engine |-> "vanilla", count |-> 100,
       batchSize |-> 10],
      [key |-> "smallBatch", fn |-> "testWrites", engine |-> "parade", count |-> 100,
       batchSize |-> 10],
      [key |-> "mediumBatch", fn |-> "testWrites", engine |-> "vanilla", count |-> 1000,
       batchSize |-> 100],
      [key |-> "mediumBatch", fn |-> "testWrites", engine |-> "parade", count |-> 1000,
       batchSize |-> 100],
      [key |-> "largeBatch", fn |-> "testWrites", engine |-> "vanilla", count |-> 5000,
       batchSize |-> 500],
      [key |-> "largeBatch", fn |-> "testWrites", engine |-> "parade", count |-> 5000,
       batchSize |-> 500],
      [key |-> "singleInsert", fn |-> "testSingleInserts", engine |-> "vanilla", count |-> 50,
       batchSize |-> 0],
      [key |-> "singleInsert", fn |-> "testSingleInserts", engine |-> "parade", count |-> 50,
       batchSize |-> 0],
      [key |-> "updates", fn |-> "testUpdates", engine |-> "vanilla", count |-> 100,
       batchSize |-> 0],
      [key |-> "updates", fn |-> "testUpdates", engine |-> "parade", count |-> 100,
       batchSize |-> 0],
      [key |-> "bulkUpdates", fn |-> "testUpdates", engine |-> "vanilla", count |-> 1000,
       batchSize |-> 0],
      [key |-> "bulkUpdates", fn |-> "testUpdates", engine |-> "parade", count |-> 1000,
       batchSize |-> 0],
      [key |-> "indexRebuild", fn |-> "testIndexRebuild", engine |-> "vanilla", count |-> 0,
       batchSize |-> 0],
      [key |-> "indexRebuild", fn |-> "testIndexRebuild", engine |-> "parade", count |-> 0,
       batchSize |-> 0]>>

\* The write tests of the copy in server.js (lines 1062-1079).
WriteTestsCopy ==
    <<[key |-> "batchInsert", fn |-> "testWrites", engine |-> "vanilla", count |-> 1000,
       batchSize |-> 100],
      [key |-> "batchInsert", fn |-> "testWrites", engine |-> "parade", count |-> 1000,
       batchSize |-> 100],
      [key |-> "singleInsert", fn |-> "testSingleInserts", engine |-> "vanilla", count |-> 50,
       batchSize |-> 0],
      [key |-> "singleInsert", fn |-> "testSingleInserts", engine |-> "parade", count |-> 50,
       batchSize |-> 0],
      [key |-> "updates", fn |-> "testUpdates", engine |-> "vanilla", count |-> 100,
       batchSize |-> 0],
      [key |-> "updates", fn |-> "testUpdates", engine |-> "parade", count |-> 100,
       batchSize |-> 0]>>

\* The write tests of the script that runs.
ProgramWriteTests == IF bProgram = "server.js" THEN WriteTestsCopy ELSE WriteTests

NextWrite == ProgramWriteTests[bWrite + 1]

\* { time: totalTime, rowsPerSec } with totalTime = SampleMillis:
\* Math.round(rows / (totalTime / 1000)).
Throughput(rows) ==
    [time |-> SampleMillis,
     rowsPerSec |-> MathRound(DividedBy(Number(rows), Quotient(SampleMillis, 1000)))]

\* result.rows.length of the SELECT ... LIMIT count of testUpdates (line
\* 443) on the table of an engine.
RowsSelected(engine, count) == Min(bStores.held[engine], count)

\* writeResults.key = { vanilla: await test(vanillaPool), parade: await
\* test(paradePool) }: the value the vanilla test returned is held until the
\* parade test has returned, and the key is assigned then.
SetWriteResult(value) ==
    IF NextWrite.engine = "vanilla"
    THEN /\ vanillaWrite' = value
         /\ UNCHANGED writeResults
    ELSE /\ writeResults' =
                [k \in DOMAIN writeResults \cup {NextWrite.key} |->
                    IF k = NextWrite.key
                    THEN [vanilla |-> vanillaWrite, parade |-> value]
                    ELSE writeResults[k]]
         /\ vanillaWrite' = NoWrite

\* The write test returned: on to the next one, or to the summary.
WriteReturns ==
    /\ bWrite' = bWrite + 1
    /\ bpc' = IF bWrite + 1 < Len(ProgramWriteTests) THEN "write" ELSE "summary"

(***************************************************************************)
(* Lines 664-686: with --help the usage is printed and the process exits   *)
(* with code 0; otherwise runBenchmark() is called.                        *)
(***************************************************************************)
TopLevel ==
    /\ bpc = "main"
    /\ IF "--help" \in bArgs
       THEN /\ report' = [report EXCEPT !.usage = TRUE]
            /\ exitCode' = 0
            /\ bpc' = "exited"
       ELSE /\ bpc' = "verify"
            /\ UNCHANGED <<report, exitCode>>
    /\ UNCHANGED <<setupOk, bType, bQuery, vanillaResult, paradeResult,
                   readResults, writeResults, vanillaWrite, bArgs, bWrite, executed,
                   bFaults, bProgram, bStores, apiVars, scoreVars, vars>>

\* The value verifySetup returns (line 127).
verifySetup ==
    /\ bStores.indexes["vanilla"] >= IndexesNeeded["vanilla"]
    /\ bStores.indexes["parade"] >= IndexesNeeded["parade"]
    /\ bStores.held["vanilla"] > SetupRows

(***************************************************************************)
(* runBenchmark, lines 514-518: verifySetup runs four queries outside any  *)
(* try block; it returns false for a store that is not set up.             *)
(***************************************************************************)
VerifySetup ==
    /\ bpc = "verify"
    /\ \/ /\ MayFail
          /\ bFaults' = bFaults + 1
          /\ bpc' = "rejected"
          /\ UNCHANGED setupOk
       \/ /\ IF verifySetup THEN setupOk' = "true" /\ bpc' = AfterVerify
             ELSE setupOk' = "false" /\ bpc' = "resolved"
          /\ UNCHANGED bFaults
    /\ UNCHANGED <<bType, bQuery, vanillaResult, paradeResult, readResults,
                   writeResults, vanillaWrite, report, exitCode, bArgs, bWrite, executed,
                   bProgram, bStores, apiVars,
                   scoreVars, vars>>

\* Lines 527-532 and 555-556: the next search type, or the end of the loop.
NextSearchType ==
    /\ bpc = "nextType"
    /\ IF bType < Len(TypesRun)
       THEN /\ bType' = bType + 1
            /\ bQuery' = 1
            /\ readResults' =
                   [t \in DOMAIN readResults \cup {SearchTypes[bType + 1]} |->
                       IF t = SearchTypes[bType + 1]
                       THEN [e \in Engines |-> ZeroTotals]
                       ELSE readResults[t]]
            /\ bpc' = "vanillaQuery"
       ELSE /\ bpc' = AfterReads
            /\ UNCHANGED <<bType, bQuery, readResults>>
    /\ UNCHANGED <<setupOk, vanillaResult, paradeResult, writeResults, vanillaWrite, report,
                   exitCode, bArgs, bWrite, executed, bFaults,
                   bProgram, bStores, apiVars,
                   scoreVars, vars>>

\* Variant: a store error is raised to runBenchmark.
RunVanillaQueryRaises ==
    /\ bpc = "vanillaQuery"
    /\ \E o \in QueryOutcomes("vanilla") :
        /\ vanillaResult' = o.result
        /\ bFaults' = FaultsAfter("vanilla", o)
        /\ Record("vanilla", o)
        /\ bpc' = IF o.threw THEN "rejected" ELSE "paradeQuery"
    /\ UNCHANGED <<setupOk, bType, bQuery, paradeResult, readResults,
                   writeResults, vanillaWrite, report, exitCode, bArgs, bWrite,
                   bProgram, bStores, apiVars,
                   scoreVars,
                   vars>>

\* Line 535 and runVanillaQuery (lines 130-210).  A search type without a
\* case leaves result undefined and result.rowCount throws.
RunVanillaQuery ==
    /\ bpc = "vanillaQuery"
    /\ IF CurrentType \in SwitchCases
       THEN \E o \in QueryOutcomes("vanilla") :
                /\ vanillaResult' = o.result
                /\ bFaults' = FaultsAfter("vanilla", o)
                /\ Record("vanilla", o)
                /\ bpc' = "paradeQuery"
       ELSE /\ bpc' = "rejected"
            /\ UNCHANGED <<vanillaResult, bFaults, executed>>
    /\ UNCHANGED <<setupOk, bType, bQuery, paradeResult, readResults,
                   writeResults, vanillaWrite, report, exitCode, bArgs, bWrite,
                   bProgram, bStores, apiVars,
                   scoreVars,
                   vars>>

\* Line 536 and runParadeQuery (lines 212-316).
RunParadeQuery ==
    /\ bpc = "paradeQuery"
    /\ IF CurrentType \in SwitchCases
       THEN \E o \in QueryOutcomes("parade") :
                /\ paradeResult' = o.result
                /\ bFaults' = FaultsAfter("parade", o)
                /\ Record("parade", o)
                /\ bpc' = "accumulate"
       ELSE /\ bpc' = "rejected"
            /\ UNCHANGED <<paradeResult, bFaults, executed>>
    /\ UNCHANGED <<setupOk, bType, bQuery, vanillaResult, readResults,
                   writeResults, vanillaWrite, report, exitCode, bArgs, bWrite,
                   bProgram, bStores, apiVars,
                   scoreVars,
                   vars>>

\* Lines 543-547 and 549-553 for one engine: if (!result.error).
Added(totals, result) ==
    IF IsFalsy(result.error)
    THEN [totalTime |-> totals.totalTime + result.duration,
          totalRelevance |-> totals.totalRelevance
                                 + relevanceOf(result, CurrentQuery),
          queries |-> totals.queries + 1]
    ELSE totals

\* Lines 538-554: the rest of the loop body, and the loop step.
Accumulate ==
    /\ bpc = "accumulate"
    /\ readResults' = [readResults EXCEPT
           ![CurrentType]["vanilla"] = Added(@, vanillaResult),
           ![CurrentType]["parade"] = Added(@, paradeResult)]
    \* vanillaResult and paradeResult are constants of the loop body
    /\ vanillaResult' = NoQuery
    /\ paradeResult' = NoQuery
    /\ IF bQuery < Len(QueriesOf(CurrentType))
       THEN bQuery' = bQuery + 1 /\ bpc' = "vanillaQuery"
       ELSE bQuery' = bQuery /\ bpc' = "nextType"
    /\ UNCHANGED <<setupOk, bType, writeResults, vanillaWrite, report, exitCode, bArgs,
                   bWrite, executed, bFaults,
                   bProgram, bStores, apiVars,
                   scoreVars, vars>>

(***************************************************************************)
(* The write tests.  Each returns a value whatever the store answers to     *)
(* its INSERT and UPDATE statements, which run inside try blocks.          *)
(***************************************************************************)
BenchFrame ==
    UNCHANGED <<setupOk, bType, bQuery, vanillaResult, paradeResult,
                readResults, report, exitCode, bArgs, executed,
                bProgram, apiVars, scoreVars, vars>>

\* The table of engine e with rows more.
Inserted(e, rows) ==
    bStores' = [bStores EXCEPT !.held[e] = @ + rows]

\* The batches of testWrites whose INSERT the store rejects: all of them,
\* none, or the first.
FailedBatches(e, batches) ==
    IF InsertsRejected(e) THEN {batches}
    ELSE {0} \cup (IF MayFail THEN {1} ELSE {})

\* testWrites (lines 358-403): the rows are inserted batchSize at a time
\* (every count of the calls is a multiple of its batch size); a failed
\* batch is logged, the loop goes on; the rate is that of count rows.
TestWrites ==
    /\ bpc = "write"
    /\ NextWrite.fn = "testWrites"
    /\ \E failed \in FailedBatches(NextWrite.engine,
                                   NextWrite.count \div NextWrite.batchSize) :
        /\ bFaults' = bFaults
               + (IF InsertsRejected(NextWrite.engine) THEN 0 ELSE failed)
        /\ Inserted(NextWrite.engine,
                    NextWrite.count - failed * NextWrite.batchSize)
    /\ SetWriteResult(Throughput(NextWrite.count))
    /\ WriteReturns
    /\ BenchFrame

\* The inserts of testSingleInserts that succeed: none with a store that
\* rejects them, all of them, or those before the rejected one.
SingleInserts(e, count) ==
    IF InsertsRejected(e) THEN {0}
    ELSE {count} \cup (IF MayFail THEN 0..(count - 1) ELSE {})

\* testSingleInserts (lines 405-437): a failed insert ends the loop; the
\* rate is that of count rows.
TestSingleInserts ==
    /\ bpc = "write"
    /\ NextWrite.fn = "testSingleInserts"
    /\ \E done \in SingleInserts(NextWrite.engine, NextWrite.count) :
        /\ bFaults' = bFaults
               + (IF InsertsRejected(NextWrite.engine) \/ done = NextWrite.count
                  THEN 0 ELSE 1)
        /\ Inserted(NextWrite.engine, done)
    /\ SetWriteResult(Throughput(NextWrite.count))
    /\ WriteReturns
    /\ BenchFrame

\* testUpdates (lines 439-477): the SELECT of line 443 is outside the try
\* block, so its failure is thrown to runBenchmark and the object being
\* assigned is dropped; no rows returns zeros
\* (line 449); a failed UPDATE is logged and the loop goes on; the rate is
\* that of the rows selected.
TestUpdates ==
    /\ bpc = "write"
    /\ NextWrite.fn = "testUpdates"
    /\ \/ /\ MayFail
          /\ bFaults' = bFaults + 1
          /\ bpc' = "rejected"
          /\ vanillaWrite' = NoWrite
          /\ UNCHANGED <<bWrite, writeResults>>
       \/ \E rows \in {RowsSelected(NextWrite.engine, NextWrite.count)} :
             IF rows = 0
             THEN /\ SetWriteResult([time |-> 0, rowsPerSec |-> 0])
                  /\ WriteReturns
                  /\ UNCHANGED bFaults
             ELSE /\ \E failed \in {FALSE} \cup (IF MayFail THEN {TRUE} ELSE {}) :
                        bFaults' = bFaults + (IF failed THEN 1 ELSE 0)
                  /\ SetWriteResult(Throughput(rows))
                  /\ WriteReturns
    /\ UNCHANGED bStores
    /\ BenchFrame

\* testIndexRebuild (lines 479-511): a failed REINDEX returns { time: 0 }.
TestIndexRebuild ==
    /\ bpc = "write"
    /\ NextWrite.fn = "testIndexRebuild"
    /\ \E failed \in {FALSE} \cup (IF MayFail THEN {TRUE} ELSE {}) :
        /\ bFaults' = bFaults + (IF failed THEN 1 ELSE 0)
        /\ SetWriteResult([time |-> IF failed THEN 0 ELSE SampleMillis])
    /\ WriteReturns
    /\ UNCHANGED bStores
    /\ BenchFrame

(***************************************************************************)
(* Lines 606-660: the summary.                                             *)
(***************************************************************************)
\* data.x.queries > 0 ? Math.round(data.x.total / data.x.queries) : 0
Average(total, queries) ==
    IF queries > 0 THEN MathRound(Quotient(total, queries)) ELSE 0

\* Lines 615-627: one row of the read table.
ReadRow(data) ==
    [vanillaAvg |-> Average(data["vanilla"].totalTime, data["vanilla"].queries),
     paradeAvg |-> Average(data["parade"].totalTime, data["parade"].queries),
     vanillaRel |-> Average(data["vanilla"].totalRelevance, data["vanilla"].queries),
     paradeRel |-> Average(data["parade"].totalRelevance, data["parade"].queries)]

\* Lines 639-657: the write types that get a row, and the row.
WriteRowPrinted(key) ==
    IF key = "indexRebuild"
    THEN writeResults[key]["vanilla"].time # 0 /\ writeResults[key]["parade"].time # 0
    ELSE /\ writeResults[key]["vanilla"].rowsPerSec # 0
         /\ writeResults[key]["parade"].rowsPerSec # 0

WriteRow(key) ==
    IF key = "indexRebuild"
    THEN writeResults[key]["parade"].time - writeResults[key]["vanilla"].time
    ELSE writeResults[key]["parade"].rowsPerSec
             - writeResults[key]["vanilla"].rowsPerSec

Summary ==
    /\ bpc = "summary"
    /\ bProgram = "benchmark.js"
    /\ report' =
           [printed |-> TRUE,
            usage |-> FALSE,
            read |-> IF runReads /\ DOMAIN readResults # {}
                     THEN [t \in DOMAIN readResults |-> ReadRow(readResults[t])]
                     ELSE <<>>,
            write |-> IF runWrites /\ DOMAIN writeResults # {}
                      THEN [k \in {x \in DOMAIN writeResults : WriteRowPrinted(x)}
                               |-> WriteRow(k)]
                      ELSE <<>>]
    /\ bpc' = "resolved"
    /\ UNCHANGED <<setupOk, bType, bQuery, vanillaResult, paradeResult,
                   readResults, writeResults, vanillaWrite, exitCode, bArgs, bWrite, executed,
                   bFaults, bProgram, bStores, apiVars,
                   scoreVars, vars>>

\* Lines 686-690: "Benchmark complete!", process.exit(0).
ThenHandler ==
    /\ bpc = "resolved"
    /\ exitCode' = 0
    /\ bpc' = "exited"
    /\ UNCHANGED <<setupOk, bType, bQuery, vanillaResult, paradeResult,
                   readResults, writeResults, vanillaWrite, report, bArgs, bWrite, executed,
                   bFaults, bProgram, bStores, apiVars,
                   scoreVars, vars>>

\* Lines 691-694: "Benchmark failed:", process.exit(1).
CatchHandler ==
    /\ bpc = "rejected"
    /\ exitCode' = 1
    /\ bpc' = "exited"
    /\ UNCHANGED <<setupOk, bType, bQuery, vanillaResult, paradeResult,
                   readResults, writeResults, vanillaWrite, report, bArgs, bWrite, executed,
                   bFaults, bProgram, bStores, apiVars,
                   scoreVars, vars>>

BenchNext ==
    \/ TopLevel
    \/ VerifySetup
    \/ NextSearchType
    \/ RunVanillaQuery
    \/ RunParadeQuery
    \/ Accumulate
    \/ TestWrites
    \/ TestSingleInserts
    \/ TestUpdates
    \/ TestIndexRebuild
    \/ Summary
    \/ ThenHandler
    \/ CatchHandler

BenchSpec == BenchInit /\ [][BenchNext]_allVars

(***************************************************************************)
(* The copy of the benchmark script in server.js (lines 600-1116): the     *)
(* same run without command line flags and without the index rebuild,      *)
(* whose summary names a speed winner and a speed ratio.                   *)
(***************************************************************************)
\* (a / b).toFixed(1) of two non-negative integers: the digits in tenths, or
\* the strings "Infinity" and "NaN" of a division by zero.
divideToFixed1(a, b) ==
    IF b # 0 THEN [kind |-> "number", tenths |-> toFixed1(Quotient(a, b))]
    ELSE IF a # 0 THEN [kind |-> "Infinity", tenths |-> 0]
    ELSE [kind |-> "NaN", tenths |-> 0]

NotAvailable == [kind |-> "N/A", tenths |-> 0]

\* Lines 1085-1094: one line of the read summary.
ReadLine(data) ==
    LET row == ReadRow(data)
    IN  [vanillaAvg |-> row.vanillaAvg,
         paradeAvg |-> row.paradeAvg,
         vanillaRel |-> row.vanillaRel,
         paradeRel |-> row.paradeRel,
         speedWinner |-> IF row.vanillaAvg < row.paradeAvg
                         THEN "Vanilla" ELSE "ParadeDB",
         speedDiff |-> IF row.vanillaAvg # 0 /\ row.paradeAvg # 0
                       THEN divideToFixed1(Max(row.vanillaAvg, row.paradeAvg),
                                           Min(row.vanillaAvg, row.paradeAvg))
                       ELSE NotAvailable]

\* Lines 1099-1103: one line of the write summary.
WriteLine(data) ==
    [vanilla |-> data["vanilla"].rowsPerSec,
     parade |-> data["parade"].rowsPerSec,
     speedWinner |-> IF data["vanilla"].rowsPerSec > data["parade"].rowsPerSec
                     THEN "Vanilla" ELSE "ParadeDB",
     speedDiff |-> divideToFixed1(
         Max(data["vanilla"].rowsPerSec, data["parade"].rowsPerSec),
         Min(data["vanilla"].rowsPerSec, data["parade"].rowsPerSec))]

\* Lines 1081-1104: the summary of the copy.
SummaryWinners ==
    /\ bpc = "summary"
    /\ bProgram = "server.js"
    /\ report' =
           [printed |-> TRUE,
            usage |-> FALSE,
            read |-> [t \in DOMAIN readResults |-> ReadLine(readResults[t])],
            write |-> [k \in DOMAIN writeResults |-> WriteLine(writeResults[k])]]
    /\ bpc' = "resolved"
    /\ UNCHANGED <<setupOk, bType, bQuery, vanillaResult, paradeResult,
                   readResults, writeResults, vanillaWrite, exitCode, bArgs, bWrite, executed,
                   bFaults, bProgram, bStores, apiVars,
                   scoreVars, vars>>

ServerBenchInit ==
    /\ bpc = "verify"
    /\ setupOk = "unknown"
    /\ bArgs = {}
    /\ bType = 0
    /\ bQuery = 0
    /\ vanillaResult = NoQuery
    /\ paradeResult = NoQuery
    /\ readResults = <<>>
    /\ writeResults = <<>>
    /\ vanillaWrite = NoWrite
    /\ report = [printed |-> FALSE, usage |-> FALSE, read |-> <<>>, write |-> <<>>]
    /\ exitCode = -1
    /\ bWrite = 0
    /\ executed = [t \in SeqToSet(TypesRun) |-> [e \in Engines |-> ZeroHistory]]
    /\ bFaults = 0
    /\ bStores \in StoreChoices
    /\ bProgram = "server.js"
    /\ ApiIdle
    /\ sResults = Null
    /\ sQuery = UndefinedQuery
    /\ sK = 0
    /\ sOut = <<>>
    /\ IngestIdle

ServerBenchNext ==
    \/ VerifySetup
    \/ NextSearchType
    \/ RunVanillaQuery
    \/ RunParadeQuery
    \/ Accumulate
    \/ TestWrites
    \/ TestSingleInserts
    \/ TestUpdates
    \/ SummaryWinners
    \/ ThenHandler
    \/ CatchHandler

ServerBenchSpec == ServerBenchInit /\ [][ServerBenchNext]_allVars

(***************************************************************************)
(* Properties of the benchmark run.                                        *)
(***************************************************************************)
\* The read loop was entered and has ended.
ReadLoopOver ==
    /\ setupOk = "true"
    /\ runReads
    /\ bpc \in {"write", "summary", "resolved", "exited"}

\* runBenchmark was rejected while the read loop was running.
RejectedInReadLoop ==
    /\ bpc = "rejected"
    /\ setupOk = "true"
    /\ runReads
    /\ bWrite = 0
    /\ report.printed = FALSE

\* The totals of search type t are up to date: no query of t has been run
\* whose result is still waiting for lines 543-553.
Settled(t) ==
    ~(bpc \in {"paradeQuery", "accumulate"} /\ t = CurrentType)

\* The averages of the successful queries of type t on engine e.
ExpectedAverage(total, ok) ==
    IF ok = 0 THEN 0 ELSE (2 * total + ok) \div (2 * ok)

\* C13: for each search type and each engine the 'queries' counter is the
\* number of queries of that type that were run and for which the store
\* reported no error, totalTime and totalRelevance are the sums over exactly
\* those queries, and the reported average is the total divided by that
\* counter (rounded); errored queries add nothing to the denominator, and
\* when no query succeeded the average is 0 and nothing is divided by zero.
C13_TotalsOverSuccessfulQueries ==
    /\ \A t \in DOMAIN readResults : \A e \in Engines :
           Settled(t) =>
               /\ readResults[t][e].queries = executed[t][e].ok
               /\ readResults[t][e].totalTime = executed[t][e].time
               /\ readResults[t][e].totalRelevance = executed[t][e].rel
    /\ (report.printed /\ runReads) =>
           /\ DOMAIN report.read = SeqToSet(TypesRun)
           /\ \A t \in DOMAIN report.read :
                  /\ report.read[t].vanillaAvg = ExpectedAverage(
                         executed[t]["vanilla"].time, executed[t]["vanilla"].ok)
                  /\ report.read[t].paradeAvg = ExpectedAverage(
                         executed[t]["parade"].time, executed[t]["parade"].ok)
                  /\ report.read[t].vanillaRel = ExpectedAverage(
                         executed[t]["vanilla"].rel, executed[t]["vanilla"].ok)
                  /\ report.read[t].paradeRel = ExpectedAverage(
                         executed[t]["parade"].rel, executed[t]["parade"].ok)

\* "Benchmark failed" was printed: the promise of runBenchmark was rejected.
BenchmarkFailed == bpc = "rejected" \/ exitCode = 1

\* C14: once setup verification has passed, runBenchmark reaches the summary
\* report under every combination of failures of individual queries, inserts
\* and updates: no failed statement makes the run end with "Benchmark
\* failed" before the report is produced.
C14_NoFailureAfterSetup ==
    (setupOk = "true" /\ ~report.printed) => ~BenchmarkFailed

(***************************************************************************)
(* C21.  The rows of the products table of db that have been committed.    *)
(***************************************************************************)
RowsWritten(db) == SumTo(table[db], Cardinality(RecordIds))

\* C21: the records-processed counter is incremented after a record has
\* been successfully processed, so at every moment of an ingestion run the
\* counter is at most the number of records successfully written to the
\* store.
C21_CounterAtMostWritten ==
    \A db \in DBS : processedCount[db] <= RowsWritten(db)

(***************************************************************************)
(* The producer loop on a corpus with every kind of line: KindsSpec is     *)
(* Spec with the corpus drawn from LineKinds.                              *)
(***************************************************************************)
KindsInit ==
    /\ lines \in SeqsUpTo(LineKinds, MaxLines)
    /\ BatchSize \in 1..MaxBatchSize
    /\ MaxWorkers \in 1..MaxWorkerCount
    /\ QueueCap \in 1..MaxQueueCap
    /\ \E d \in DBS : pc = [e \in DBS |-> IF e = d THEN "open" ELSE "notStarted"]
    /\ InitCommon
    /\ MainWaits
    /\ ScoreIdle
    /\ BenchIdle
    /\ ApiIdle

KindsSpec == KindsInit /\ [][Next]_vars

\* Line i parses and yields a non-empty identifier and a non-empty title.
ParsesWithBothFields(i) == lines[i] = "valid"

\* The lines the scanner of db has consumed.
Consumed(db) == 1..pos[db]

\* The scanner loop of db has ended (lines 367-406).
ScanLoopOver(db) == pc[db] \in {"flush", "close", "wait"} \/ closed[db]

\* C22: a consumed line is in a batch (once) and counted if and only if it
\* parses with both fields; every other line (empty, unparsable, missing
\* a field) is in no batch, is not counted and never reaches insertBatch,
\* and the loop goes on to the following lines: it ends only when the
\* whole corpus has been consumed.
C22_OnlyCompleteRecordsForwarded ==
    \A db \in DBS :
        LET placed == Flatten(submitted[db]) \o Filling(db)
        IN  /\ \A i \in Consumed(db) :
                Occurrences(placed, i) = IF ParsesWithBothFields(i) THEN 1 ELSE 0
            /\ \A i \in 1..Len(lines) :
                i \notin Consumed(db) => Occurrences(placed, i) = 0
            /\ processedCount[db] =
                   Cardinality({i \in Consumed(db) : ParsesWithBothFields(i)})
            /\ \A c \in Calls(db) : \A k \in 1..Len(c.products) :
                   ParsesWithBothFields(c.products[k])
            /\ \A i \in 1..Len(lines) :
                   ~ParsesWithBothFields(i) => table[db][i] = 0
            /\ ScanLoopOver(db) => pos[db] = Len(lines)

(***************************************************************************)
(* server.js: the handler of POST /api/benchmark (lines 423-496) with      *)
(* runVanillaSearch (34-176) and runParadeSearch (178-329).  The stores    *)
(* are the environment: a search returns rows and a duration, or throws.   *)
(***************************************************************************)
\* The search types of the closed enumeration, fuzzy under both names.
SearchTypeNames == {"fulltext", "boolean", "field", "fuzzy", "like", "exact"}

\* The case labels of switch(searchType) in runVanillaSearch and
\* runParadeSearch; any other value takes the default branch.
ServerCases == {"fulltext", "boolean", "field", "like", "exact"}

serverBranch(searchType) ==
    IF searchType \in ServerCases THEN searchType ELSE "default"

\* Rows the stores may answer the queries with.
ApiResultSets ==
    { <<>>,
      <<Row(CPlusPlusPrimer, <<>>, <<>>)>>,
      <<IPhoneRow, Row(Case, ForIphone, <<>>), Row(AppleWatch, <<>>, <<>>)>>,
      <<IPhoneRow, Row(AppleWatch, <<>>, <<>>), Row(Case, ForIphone, <<>>)>>,
      <<Row(Case, ForIphone, <<>>), IPhoneRow>> }

\* What pool.query does for one search: rows after a duration, or an error.
StoreOutcomes ==
    [threw : {FALSE}, message : {<<>>}, rows : ApiResultSets,
     duration : 0..MaxDuration]
        \cup [threw : {TRUE}, message : ErrorMessages, rows : {<<>>},
              duration : {0}]

\* The value of runVanillaSearch / runParadeSearch (lines 168-175, 320-328),
\* or the value the handler's catch block puts in its place (437, 444).
\* actualQuery is the branch of the switch whose statement was run.
searchResult(searchType, o) ==
    IF o.threw
    THEN [results |-> <<>>, duration |-> 0, count |-> 0,
          error |-> Str(o.message), actualQuery |-> "none"]
    ELSE [results |-> o.rows, duration |-> o.duration, count |-> Len(o.rows),
          error |-> NoError, actualQuery |-> serverBranch(searchType)]

\* Variant: any difference makes a winner.
accuracyNoThreshold(vanillaNDCG, paradeNDCG) ==
    IF Less(paradeNDCG, vanillaNDCG)
    THEN [winner |-> "vanilla", diff |-> Minus(vanillaNDCG, paradeNDCG)]
    ELSE IF Less(vanillaNDCG, paradeNDCG)
    THEN [winner |-> "parade", diff |-> Minus(paradeNDCG, vanillaNDCG)]
    ELSE [winner |-> "tie", diff |-> Zero]

\* Lines 455-465: accuracyWinner and accuracyDiff.
accuracy(vanillaNDCG, paradeNDCG) ==
    IF Less(Plus(paradeNDCG, Number(5)), vanillaNDCG)
    THEN [winner |-> "vanilla", diff |-> Minus(vanillaNDCG, paradeNDCG)]
    ELSE IF Less(Plus(vanillaNDCG, Number(5)), paradeNDCG)
    THEN [winner |-> "parade", diff |-> Minus(paradeNDCG, vanillaNDCG)]
    ELSE [winner |-> "tie", diff |-> Zero]

\* Lines 467-469: the digits of (v.duration / p.duration).toFixed(2), in
\* hundredths, or 'N/A' (0).
speedup(v, p) ==
    IF v.duration > 0 /\ p.duration > 0
    THEN toFixed2(Quotient(v.duration, p.duration))
    ELSE 0

\* Lines 492-495: the catch block of the handler answers 500.
InternalError ==
    [status |-> 500, vanillaRelevance |-> 0, paradeRelevance |-> 0, speedup |-> 0,
     winner |-> "none", difference |-> 0, vanillaScore |-> 0, paradeScore |-> 0]

\* Lines 447-495: the body of the response; the scores are the digits of
\* toFixed(1), in tenths.  A SyntaxError of calculateRelevanceScore is caught
\* at line 492.
responseBody(query, v, p) ==
    LET vanillaRelevance == calculateRelevanceScore(Array(v.results), query)
        paradeRelevance == calculateRelevanceScore(Array(p.results), query)
        vanillaNDCG == calculateNDCG(Array(v.results), query, DefaultK).value
        paradeNDCG == calculateNDCG(Array(p.results), query, DefaultK).value
        a == accuracy(vanillaNDCG, paradeNDCG)
    IN  IF SyntaxError \in {vanillaRelevance, paradeRelevance} THEN InternalError
        ELSE [status |-> 200,
              vanillaRelevance |-> toFixed1(vanillaRelevance.value),
              paradeRelevance |-> toFixed1(paradeRelevance.value),
              speedup |-> speedup(v, p),
              winner |-> a.winner,
              difference |-> toFixed1(a.diff),
              vanillaScore |-> toFixed1(vanillaNDCG),
              paradeScore |-> toFixed1(paradeNDCG)]

BadRequest ==
    [status |-> 400, vanillaRelevance |-> 0, paradeRelevance |-> 0, speedup |-> 0,
     winner |-> "none", difference |-> 0, vanillaScore |-> 0, paradeScore |-> 0]

\* const { query, searchType = 'fulltext' } = req.body
searchTypeOf(body) ==
    IF body.searchType = "undefined" THEN "fulltext" ELSE body.searchType

\* !query: the property is absent or the empty string.
NoQueryGiven(body) == body.query.kind # "string" \/ body.query.chars = <<>>

NoSearch ==
    [results |-> <<>>, duration |-> 0, count |-> 0,
     error |-> Str(<<"n", "o", "t", " ", "r", "u", "n">>),
     actualQuery |-> "none"]

ApiInit ==
    /\ hpc = "request"
    /\ reqBody \in [query : {Str(iphone), Str(cPlusPlus), Str(<<>>), UndefinedQuery},
                    searchType : SearchTypeNames \cup {"undefined"}]
    /\ vanilla = NoSearch
    /\ parade = NoSearch
    /\ resJson = <<>>
    /\ searched = <<>>
    /\ ScoreIdle
    /\ BenchIdle
    /\ IngestIdle

\* Lines 424-429: the request arrives; 400 when there is no query.
PostBenchmark ==
    /\ hpc = "request"
    /\ IF NoQueryGiven(reqBody)
       THEN resJson' = BadRequest /\ hpc' = "done"
       ELSE resJson' = resJson /\ hpc' = "vanilla"
    /\ UNCHANGED <<reqBody, vanilla, parade, searched, scoreVars, benchVars, vars>>

\* History: the store of engine e answered the search, or threw an error
\* with a message.
Searched(e, o) ==
    [f \in DOMAIN searched \cup {e} |->
        IF f = e THEN [threw |-> o.threw, message |-> o.message]
        ELSE searched[f]]

\* Lines 433-438: await runVanillaSearch, its error caught.
AwaitVanillaSearch ==
    /\ hpc = "vanilla"
    /\ \E o \in StoreOutcomes :
        /\ vanilla' = searchResult(searchTypeOf(reqBody), o)
        /\ searched' = Searched("vanilla", o)
    /\ hpc' = "parade"
    /\ UNCHANGED <<reqBody, parade, resJson, scoreVars, benchVars, vars>>

\* Lines 440-491: await runParadeSearch, its error caught, and the response.
AwaitParadeSearch ==
    /\ hpc = "parade"
    /\ \E o \in StoreOutcomes :
        LET p == searchResult(searchTypeOf(reqBody), o)
        IN  /\ parade' = p
            /\ resJson' = responseBody(reqBody.query, vanilla, p)
            /\ searched' = Searched("parade", o)
    /\ hpc' = "done"
    /\ UNCHANGED <<reqBody, vanilla, scoreVars, benchVars, vars>>

ApiNext ==
    \/ PostBenchmark
    \/ AwaitVanillaSearch
    \/ AwaitParadeSearch

ApiSpec == ApiInit /\ [][ApiNext]_allVars

(***************************************************************************)
(* The benchmark script and the handler of POST /api/benchmark, each from  *)
(* its own initial state: the two places where an error of a store is      *)
(* caught and the work goes on.                                            *)
(***************************************************************************)
QueriesInit == BenchInit \/ ApiInit

QueriesNext == BenchNext \/ ApiNext

QueriesSpec == QueriesInit /\ [][QueriesNext]_allVars

\* The value engine e returned for the current query is in scope.
ResultHeld(e) ==
    \/ bpc = "accumulate"
    \/ bpc = "paradeQuery" /\ e = "vanilla"

HeldResult(e) == IF e = "vanilla" THEN vanillaResult ELSE paradeResult

\* The value the handler holds for the search of engine e.
SearchValue(e) == IF e = "vanilla" THEN vanilla ELSE parade

\* C12: when the store reports an error for a query, runVanillaQuery and
\* runParadeQuery return duration 0, count 0, empty results and the error
\* message, whatever the message is, instead of raising, and the run goes on
\* to the other engine's query and to every remaining query of the matrix:
\* both engines have run the query when its results are compared, and when
\* the read loop has ended every query of every type was run on both engines.
\* The handler of POST /api/benchmark puts the same value in the place of a
\* search that threw, goes on to the search of the other engine and answers.
C12_QueryErrorContained ==
    /\ \A e \in DOMAIN searched :
           searched[e].threw =>
               /\ SearchValue(e).duration = 0
               /\ SearchValue(e).count = 0
               /\ SearchValue(e).results = <<>>
               /\ SearchValue(e).error = Str(searched[e].message)
    /\ (hpc = "done" /\ ~NoQueryGiven(reqBody)) =>
           /\ DOMAIN searched = Engines
           /\ resJson.status \in {200, 500}
    /\ \A e \in Engines :
           (ResultHeld(e) /\ executed[CurrentType][e].last.threw) =>
               /\ HeldResult(e).duration = 0
               /\ HeldResult(e).count = 0
               /\ HeldResult(e).results = <<>>
               /\ HeldResult(e).error = Str(executed[CurrentType][e].last.message)
    /\ ~RejectedInReadLoop
    /\ bpc = "accumulate" =>
           \A e \in Engines : executed[CurrentType][e].run = bQuery
    /\ ReadLoopOver =>
           \A i \in 1..Len(TypesRun) : \A e \in Engines :
               executed[TypesRun[i]][e].run = Len(QueriesOf(TypesRun[i]))

\* The read loop ran every query although queries of one type failed on
\* both engines, on one of them with an empty message.
C12_Witness ==
    /\ ReadLoopOver
    /\ \E t \in SeqToSet(TypesRun) :
           /\ executed[t]["vanilla"].ok < executed[t]["vanilla"].run
           /\ executed[t]["parade"].ok < executed[t]["parade"].run
           /\ \E e \in Engines : readResults[t][e].queries > executed[t][e].ok

\* The NDCG score of the results of one engine, as the handler computes it.
NDCGOf(result) ==
    calculateNDCG(Array(result.results), reqBody.query, DefaultK).value

Responded == hpc = "done" /\ resJson.status = 200

\* The difference of two scores, as the subtraction of the handler gives it.
AbsDiff(a, b) == IF Less(a, b) THEN Minus(b, a) ELSE Minus(a, b)

\* C23: the accuracy comparison reports a tie, with difference 0, whenever
\* the NDCG scores of the two engines differ by at most 5 points; otherwise
\* it names the engine with the higher NDCG and the positive difference; it
\* never names the engine with the lower NDCG.
C23_AccuracyWinner ==
    Responded =>
        LET v == NDCGOf(vanilla)
            p == NDCGOf(parade)
        IN  /\ ~Less(Number(5), AbsDiff(v, p)) =>
                   resJson.winner = "tie" /\ resJson.difference = 0
            /\ Less(Number(5), AbsDiff(v, p)) =>
                   /\ resJson.winner = (IF Less(p, v) THEN "vanilla" ELSE "parade")
                   /\ resJson.difference = toFixed1(AbsDiff(v, p))
                   /\ resJson.difference > 0
            /\ resJson.winner = "vanilla" => Less(p, v)
            /\ resJson.winner = "parade" => Less(v, p)

\* A tie was reported for two different scores, and a response names a winner.
C23_Witness ==
    /\ Responded
    /\ NDCGOf(vanilla) # NDCGOf(parade)
    /\ ~Less(Number(5), AbsDiff(NDCGOf(vanilla), NDCGOf(parade)))
    /\ resJson.winner = "tie"

(***************************************************************************)
(* main (lines 454-499): download, getDB and setupTables for both stores,  *)
(* then the two pipelines as goroutines and wg.Wait().  log.Fatalf ends    *)
(* the process.  MainSpec runs main and both pipelines on a corpus of at   *)
(* most MainLines lines with BatchSize, MaxWorkers and the channel         *)
(* capacity all 1.                                                         *)
(***************************************************************************)
MainLines == 1

ConnectPc == [vanilla |-> "connectVanilla", parade |-> "connectParade"]
SetupPc == [vanilla |-> "setupVanilla", parade |-> "setupParade"]
GoPc == [vanilla |-> "goVanilla", parade |-> "goParade"]

\* The position of main after the step at p.
AfterPc ==
    [download |-> "connectVanilla", connectVanilla |-> "connectParade",
     connectParade |-> "setupVanilla", setupVanilla |-> "setupParade",
     setupParade |-> "add", add |-> "goVanilla", goVanilla |-> "goParade",
     goParade |-> "wait", wait |-> "complete"]

MainInit ==
    /\ lines \in SeqsUpTo(InputKinds, MainLines)
    /\ BatchSize = 1
    /\ MaxWorkers = 1
    /\ QueueCap = 1
    /\ pc = [d \in DBS |-> "notStarted"]
    /\ pos = [d \in DBS |-> 0]
    /\ batch = [d \in DBS |-> <<>>]
    /\ processedCount = [d \in DBS |-> 0]
    /\ finalCount = [d \in DBS |-> -1]
    /\ batchChan = [d \in DBS |-> <<>>]
    /\ closed = [d \in DBS |-> FALSE]
    /\ workerWg = [d \in DBS |-> 0]
    /\ wpc = [d \in DBS |-> [w \in WorkerIds |-> "none"]]
    /\ wbatch = [d \in DBS |-> [w \in WorkerIds |-> <<>>]]
    /\ wtx = [d \in DBS |-> [w \in WorkerIds |-> NoCall]]
    /\ table = [d \in DBS |-> [r \in RecordIds |-> 0]]
    /\ tableLogged = [d \in DBS |-> FALSE]
    /\ idxI = [d \in DBS |-> 0]
    /\ indexErr = [d \in DBS |-> FALSE]
    /\ logs = [d \in DBS |-> {}]
    /\ submitted = [d \in DBS |-> <<>>]
    /\ insertCalls = [d \in DBS |-> EmptyBag]
    /\ stmts = [d \in DBS |-> <<>>]
    /\ lifecycle = [d \in DBS |-> <<>>]
    /\ faults = [d \in DBS |-> 0]
    /\ mpc = "download"
    /\ dbConn = [d \in DBS |-> FALSE]
    /\ setupStmts = [d \in DBS |-> <<>>]
    /\ wg = 0
    /\ wgDone = [d \in DBS |-> 0]
    /\ ScoreIdle
    /\ BenchIdle
    /\ ApiIdle

\* What main leaves alone: the pipelines' state.
PipelinesUnchanged ==
    UNCHANGED <<jsVars, cfgVars, producerVars, pc, batchChan, closed, workerVars,
                tableLogged, insertCalls, stmts, postVars, logs, faults>>

\* Lines 457-460: downloadFile; its error is fatal.
DownloadFile ==
    /\ mpc = "download"
    /\ \E ok \in BOOLEAN : mpc' = IF ok THEN AfterPc[mpc] ELSE "fatal"
    /\ PipelinesUnchanged
    /\ UNCHANGED <<table, lifecycle, dbConn, setupStmts, wg, wgDone>>

\* Lines 465-476 and getDB (93-111): sql.Open and db.Ping; an error is fatal.
GetDB(db) ==
    /\ mpc = ConnectPc[db]
    /\ \E ok \in BOOLEAN :
        /\ dbConn' = [dbConn EXCEPT ![db] = ok]
        /\ setupStmts' = [setupStmts EXCEPT ![db] = Append(@, <<"CONNECT", ok>>)]
        /\ mpc' = IF ok THEN AfterPc[mpc] ELSE "fatal"
    /\ PipelinesUnchanged
    /\ UNCHANGED <<table, lifecycle, wg, wgDone>>

\* The statements setupTables runs for the answers of the store: DROP and
\* CREATE return their error, CREATE EXTENSION only logs a warning.
setupTables(dropOk, createOk, extOk) ==
    IF ~dropOk THEN <<<<"DROP", FALSE>>>>
    ELSE IF ~createOk THEN <<<<"DROP", TRUE>>, <<"CREATE UNLOGGED", FALSE>>>>
    ELSE <<<<"DROP", TRUE>>, <<"CREATE UNLOGGED", TRUE>>, <<"CREATE EXTENSION", extOk>>>>

\* Variant: the error of setupTables is only logged.
SetupTablesErrorIgnored(db) ==
    /\ mpc = SetupPc[db]
    /\ \E dropOk, createOk, extOk \in BOOLEAN :
        LET run == setupTables(dropOk, createOk, extOk)
            err == ~dropOk \/ ~createOk
        IN  /\ ~dropOk => (createOk /\ extOk)
            /\ ~createOk => extOk
            /\ setupStmts' = [setupStmts EXCEPT ![db] = @ \o run]
            /\ table' = [table EXCEPT ![db] =
                   IF dropOk THEN [r \in RecordIds |-> 0] ELSE @]
            /\ lifecycle' = [lifecycle EXCEPT ![db] =
                   IF err THEN @ ELSE Append(@, "UNBUFFERED_LOAD")]
            /\ mpc' = AfterPc[mpc]
    /\ PipelinesUnchanged
    /\ UNCHANGED <<dbConn, wg, wgDone>>

\* Lines 478-485 and setupTables (113-162); an error is fatal.
SetupTables(db) ==
    /\ mpc = SetupPc[db]
    /\ \E dropOk, createOk, extOk \in BOOLEAN :
        LET run == setupTables(dropOk, createOk, extOk)
            err == ~dropOk \/ ~createOk
        IN  /\ ~dropOk => (createOk /\ extOk)
            /\ ~createOk => extOk
            /\ setupStmts' = [setupStmts EXCEPT ![db] = @ \o run]
            /\ table' = [table EXCEPT ![db] =
                   IF dropOk THEN [r \in RecordIds |-> 0] ELSE @]
            /\ lifecycle' = [lifecycle EXCEPT ![db] =
                   IF err THEN @ ELSE Append(@, "UNBUFFERED_LOAD")]
            /\ mpc' = IF err THEN "fatal" ELSE AfterPc[mpc]
    /\ PipelinesUnchanged
    /\ UNCHANGED <<dbConn, wg, wgDone>>

\* Lines 488-489: var wg sync.WaitGroup; wg.Add(2).
WgAdd ==
    /\ mpc = "add"
    /\ wg' = wg + 2
    /\ mpc' = AfterPc[mpc]
    /\ PipelinesUnchanged
    /\ UNCHANGED <<table, lifecycle, dbConn, setupStmts, wgDone>>

\* Lines 491-492: go processAmazonData(db, ...).
GoProcessAmazonData(db) ==
    /\ mpc = GoPc[db]
    /\ pc' = [pc EXCEPT ![db] = "open"]
    /\ mpc' = AfterPc[mpc]
    /\ UNCHANGED <<jsVars, cfgVars, producerVars, batchChan, closed, workerVars,
                   storeVars, postVars, logs, faults, dbConn, setupStmts, wg,
                   wgDone>>

\* Lines 494-498: wg.Wait() returns when the counter is 0; the dataset setup
\* is reported as complete.
WgWait ==
    /\ mpc = "wait"
    /\ wg = 0
    /\ mpc' = AfterPc[mpc]
    /\ PipelinesUnchanged
    /\ UNCHANGED <<table, lifecycle, dbConn, setupStmts, wg, wgDone>>

Main ==
    \/ DownloadFile
    \/ \E db \in DBS : GetDB(db)
    \/ \E db \in DBS : SetupTables(db)
    \/ WgAdd
    \/ \E db \in DBS : GoProcessAmazonData(db)
    \/ WgWait

MainNext == Main \/ Next

MainSpec == MainInit /\ [][MainNext]_vars

(***************************************************************************)
(* Properties of main.                                                     *)
(***************************************************************************)
\* A startup statement of main on db (connection, DROP, CREATE) has failed.
StartupFailed(db) ==
    \E k \in 1..Len(setupStmts[db]) :
        /\ setupStmts[db][k][1] \in {"CONNECT", "DROP", "CREATE UNLOGGED"}
        /\ ~setupStmts[db][k][2]

\* The connection to db and setupTables(db) have succeeded.
StartupSucceeded(db) ==
    /\ dbConn[db]
    /\ <<"CREATE UNLOGGED", TRUE>> \in SeqToSet(setupStmts[db])
    /\ ~StartupFailed(db)

\* The pipeline of db has started: the goroutine runs, a worker exists or
\* a batch has been passed to insertBatch.
PipelineStarted(db) ==
    \/ pc[db] # "notStarted"
    \/ \E w \in WorkerIds : wpc[db][w] # "none"
    \/ insertCalls[db] # EmptyBag

NothingLoaded(db) ==
    /\ ~PipelineStarted(db)
    /\ \A r \in RecordIds : table[db][r] = 0

\* C24: no pipeline starts unless the connections to both stores and the
\* table setup on both stores have succeeded; a failure of any of them ends
\* the program (log.Fatalf) before any data is loaded into either store.
C24_NoIngestionBeforeSetup ==
    /\ (\E db \in DBS : PipelineStarted(db)) => \A d \in DBS : StartupSucceeded(d)
    /\ (\E db \in DBS : StartupFailed(db)) =>
           /\ mpc = "fatal"
           /\ \A d \in DBS : NothingLoaded(d)
    /\ mpc = "fatal" => \A d \in DBS : NothingLoaded(d)

\* The setup of the ParadeDB table failed after the vanilla table had been
\* created: the program has ended and nothing was loaded.
C24_Witness ==
    /\ mpc = "fatal"
    /\ StartupSucceeded("vanilla")
    /\ <<"CREATE UNLOGGED", FALSE>> \in SeqToSet(setupStmts["parade"])
    /\ \A d \in DBS : NothingLoaded(d)

(***************************************************************************)
(* The accumulator on a corpus long enough for a full batch followed by a  *)
(* partial one: BatchesSpec is Spec with up to BatchLines lines, one       *)
(* worker and a channel of capacity 1.                                     *)
(***************************************************************************)
BatchesInit ==
    /\ lines \in SeqsUpTo(InputKinds, BatchLines)
    /\ BatchSize \in 1..MaxBatchSize
    /\ MaxWorkers = 1
    /\ QueueCap = 1
    /\ \E d \in DBS : pc = [e \in DBS |-> IF e = d THEN "open" ELSE "notStarted"]
    /\ InitCommon
    /\ MainWaits
    /\ ScoreIdle
    /\ BenchIdle
    /\ ApiIdle

BatchesSpec == BatchesInit /\ [][Next]_vars

IsIncreasing(s) == \A i, j \in 1..Len(s) : i < j => s[i] < s[j]

\* C25: every batch sent on the channel is non-empty and holds at most
\* BatchSize records; every batch but the last one sent holds exactly
\* BatchSize; once the channel is closed the scanner has nothing more to
\* give and every valid record it gave is in a sent batch (the partial
\* batch was sent before the close); the records
\* of a batch, and of the batches in sending order, are in input order.
C25_BatchesBoundedAndFlushed ==
    \A db \in DBS :
        LET sent == submitted[db]
        IN  /\ \A k \in 1..Len(sent) :
                /\ Len(sent[k]) >= 1
                /\ Len(sent[k]) <= BatchSize
                /\ k < Len(sent) => Len(sent[k]) = BatchSize
            /\ IsIncreasing(Flatten(sent) \o Filling(db))
            /\ closed[db] =>
                   /\ ~ScannerScan(db)
                   /\ \A i \in 1..pos[db] :
                          lines[i] = "valid" => Occurrences(Flatten(sent), i) = 1

\* The channel was closed after a full batch of two records and a partial
\* batch of one.
C25_Witness ==
    \E db \in DBS :
        /\ closed[db]
        /\ BatchSize = 2
        /\ submitted[db] = <<<<1, 2>>, <<3>>>>

\* The batches of db being written (held by a worker inside insertBatch),
\* waiting in the channel, and in the producer's hands.
Writing(db) == Cardinality({w \in WorkerIds : Inserting(db, w)})
Queued(db) == Len(batchChan[db])
InHand(db) == IF Filling(db) # <<>> THEN 1 ELSE 0
Outstanding(db) == Writing(db) + Queued(db) + InHand(db)

\* C26: at every moment at most W = MaxWorkers batches are being written,
\* one per worker, and at most Q batches are queued; every batch sent and
\* not yet passed through insertBatch is queued or being written, so with
\* the batch in the producer's hands at most Q + W + 1 batches exist that
\* are not fully inserted.
C26_OutstandingBatchesBounded ==
    \A db \in DBS :
        /\ Writing(db) <= MaxWorkers
        /\ \A w \in WorkerIds : Inserting(db, w) => wbatch[db][w] # <<>>
        /\ \A w \in WorkerIds : ~Inserting(db, w) => wbatch[db][w] = <<>>
        /\ Queued(db) <= QueueCap
        /\ Len(submitted[db]) =
               Queued(db) + Writing(db) + BagCardinality(insertCalls[db])
        /\ Outstanding(db) <= QueueCap + MaxWorkers + 1

\* The bound is reached: the worker writes a batch, the channel is full and
\* the producer is blocked with a third batch.
C26_Witness ==
    \E db \in DBS :
        /\ pc[db] = "send"
        /\ Writing(db) = MaxWorkers
        /\ Queued(db) = QueueCap
        /\ Outstanding(db) = QueueCap + MaxWorkers + 1

\* Everything pipeline db reads or writes, and its calls of wg.Done().
PipelineState(db) ==
    <<pc[db], pos[db], batch[db], processedCount[db], finalCount[db],
      batchChan[db], closed[db], workerWg[db], wpc[db], wbatch[db], table[db],
      tableLogged[db], idxI[db], indexErr[db], logs[db], submitted[db],
      insertCalls[db], stmts[db], lifecycle[db], faults[db], wgDone[db]>>

\* processAmazonData(db) is running: started and not returned.
Running(db) == pc[db] \notin {"notStarted", "done"}

\* A step of pipeline db: its producer or one of its workers.
PipelineStep(db) == Producer(db) \/ \E w \in WorkerIds : Worker(db, w)

\* An error has been logged by pipeline db: the corpus could not be opened,
\* a batch failed, or the index construction failed.
PipelineErred(db) ==
    \E entry \in logs[db] :
        entry[1] \in {"openError", "gzipError", "insertBatchError", "indexError"}

\* A step of one pipeline leaves the state of the other untouched.
C27_StepsAreLocal ==
    \A d, e \in DBS :
        (d # e /\ PipelineState(d)' # PipelineState(d)) =>
            PipelineState(e)' = PipelineState(e)

\* A running pipeline can take a step whatever the other has done; a
\* pipeline calls wg.Done() exactly once, when it returns; main reports the
\* dataset setup as complete only after both pipelines have returned.
C27_PipelinesEndOnce ==
    /\ \A db \in DBS :
        /\ Running(db) => ENABLED PipelineStep(db)
        /\ wgDone[db] = (IF pc[db] = "done" THEN 1 ELSE 0)
    /\ mpc \in {"goVanilla", "goParade", "wait"} =>
           wg = 2 - wgDone["vanilla"] - wgDone["parade"]
    /\ mpc = "complete" => \A db \in DBS : pc[db] = "done" /\ wgDone[db] = 1

\* C27: the two stores are ingested by two independent pipelines: an error
\* in one pipeline never blocks or stops the other, each pipeline signals
\* its completion exactly once on every path, and main reports the dataset
\* setup as complete only after both pipelines have ended.
C27_IndependentPipelines ==
    /\ []C27_PipelinesEndOnce
    /\ [][C27_StepsAreLocal]_vars

\* main reported completion after the vanilla pipeline had failed to open
\* the corpus and the ParadeDB pipeline had loaded a record and finished.
C27_Witness ==
    /\ mpc = "complete"
    /\ <<"openError">> \in logs["vanilla"]
    /\ PipelineErred("vanilla")
    /\ table["parade"][1] = 1
    /\ "READY" \in SeqToSet(lifecycle["parade"])

(***************************************************************************)
(* The summary of the copy in server.js.                                   *)
(***************************************************************************)
\* The summary of the copy has been printed.
WinnersPrinted == bProgram = "server.js" /\ report.printed

\* No query of search type t succeeded on engine e.
NoneSucceeded(t, e) == executed[t][e].ok = 0

\* C28: in the read summary that names a speed winner, an engine none of
\* whose queries of a search type succeeded is not the speed winner of that
\* type, and with equal averages neither engine is the winner.
C28_WinnerHadSuccessAndWasFaster ==
    WinnersPrinted =>
        \A t \in DOMAIN report.read :
            LET line == report.read[t]
            IN  /\ NoneSucceeded(t, "vanilla") => line.speedWinner # "Vanilla"
                /\ NoneSucceeded(t, "parade") => line.speedWinner # "ParadeDB"
                /\ line.vanillaAvg = line.paradeAvg =>
                       line.speedWinner \notin {"Vanilla", "ParadeDB"}

\* C29: the write summary prints a finite speed ratio for every write type:
\* it never divides by a throughput of 0.
C29_WriteRatioFinite ==
    WinnersPrinted =>
        \A k \in DOMAIN report.write : report.write[k].speedDiff.kind = "number"

(***************************************************************************)
(* Dispatch on the search type.                                            *)
(***************************************************************************)
\* The query-construction strategy of a search type: the fuzzy type has the
\* two names 'fuzzy' and 'like'.
StrategyOf(searchType) ==
    IF searchType \in {"fuzzy", "like"} THEN "fuzzy" ELSE searchType

\* The strategy of the branch that runVanillaSearch and runParadeSearch take:
\* case 'like' builds the fuzzy query, default is a strategy of its own.
serverStrategy(searchType) ==
    IF serverBranch(searchType) = "default"
    THEN "default"
    ELSE StrategyOf(serverBranch(searchType))

\* The strategy of the branch that runVanillaQuery and runParadeQuery take:
\* the switch has no default, a value without a case leaves result undefined.
scriptStrategy(searchType) ==
    IF searchType \in SwitchCases THEN StrategyOf(searchType) ELSE "undefined"

\* Every search the handler ran took the branch of the requested type.
ServerDispatchesOwnStrategy ==
    \A r \in {vanilla, parade} :
        r.actualQuery # "none" =>
            /\ r.actualQuery = serverBranch(searchTypeOf(reqBody))
            /\ serverStrategy(searchTypeOf(reqBody))
                   = StrategyOf(searchTypeOf(reqBody))

\* The dispatchers of the benchmark script have a case for every search type.
ScriptDispatchesOwnStrategy ==
    \A t \in SearchTypeNames : scriptStrategy(t) = StrategyOf(t)

\* C30: every search type of the enumeration, 'fuzzy' and 'like' included, is
\* dispatched by each of the four dispatchers to its own strategy: none takes
\* the default branch and none leaves the result undefined.
C30_EveryTypeHasItsOwnBranch ==
    /\ ServerDispatchesOwnStrategy
    /\ hpc = "done" => ScriptDispatchesOwnStrategy

====
